---- MODULE Spec2Model ----
(***************************************************************************)
(* Model of the decision engine of nofx (decision/engine.go): the market  *)
(* snapshot with its liquidity filter (over market.Get of market/data.go), *)
(* the prompt builders, the LLM reply parser (chain-of-thought split,      *)
(* decision-array extraction, JSON decoding) and the decision validator,   *)
(* driven by one decision cycle.                                           *)
(*                                                                         *)
(* Text is modelled as a sequence of lexemes: "[", "]", ",", " " (white    *)
(* space), "t" (any other prose character) and object lexemes, each        *)
(* standing for the text of one JSON object {...} without brackets in it.  *)
(*                                                                         *)
(* float64 is modelled as binary floating point with round-to-nearest-even *)
(* and a mantissa of MantBits bits instead of 53, so that absorption and   *)
(* rounding happen at magnitudes TLC can enumerate.                        *)
(***************************************************************************)
EXTENDS Integers, Sequences, FiniteSets, TLC

VARIABLES
    ctx,         \* the Context: equity, leverage caps, held and candidate
                 \* symbols, and the two maps of the snapshot
    fused,       \* whether the build fuses x*y + z into one rounding (the Go
                 \* specification allows it, the target architecture decides)
    pc,          \* the position of the cycle, or of the validator run
    aiResponse,  \* the reply text the gateway returned
    result,      \* what GetFullDecisionWithCustomPrompt returned
    wire,        \* the JSON object of the decision under validation
    verdict,     \* the error validateDecision returned for it
    sources,     \* what the data sources returned during the last fetch
    args,        \* customPrompt, overrideBase and templateName of the call,
                 \* and the prompt templates that exist
    prompts,     \* systemPrompt and userPrompt of the cycle under way
    calls,       \* the prompt pairs the gateway received in this cycle
    trace,       \* the steps the cycle under way has taken, in order
    klines,      \* the candle sequence handed to the indicator engine
    analysis,    \* what the indicator engine returned for it
    trader       \* one trader of the API server: its running flag, the run
                 \* loops launched for it and the start/stop requests

vars == <<ctx, fused, pc, aiResponse, result, wire, verdict,
          sources, args, prompts, calls, trace, klines, analysis, trader>>

cycleVars == <<sources, args, prompts, calls, trace>>

marketVars == <<klines, analysis>>

(***************************************************************************)
(* Bounds                                                                  *)
(***************************************************************************)
MantBits == 8
MaxLeverage == 4
MaxDecisions == 3
MaxTextLen == 4
MaxRequests == 3

(***************************************************************************)
(* float64 arithmetic (reduced mantissa).  A float is [m, e] with value    *)
(* m * 2^e; it is normalised: m = 0 and e = 0, or 2^(MantBits-1) <= |m| <  *)
(* 2^MantBits.                                                             *)
(***************************************************************************)
RECURSIVE Pow2(_)
Pow2(n) == IF n <= 0 THEN 1 ELSE 2 * Pow2(n - 1)

Abs(x) == IF x < 0 THEN -x ELSE x

Sign(x) == IF x < 0 THEN -1 ELSE 1

FZero == [m |-> 0, e |-> 0]

\* the float nearest to the positive rational (n / d) * 2^e, ties to even
RECURSIVE RoundQ(_, _, _)
RoundQ(n, d, e) ==
    IF n = 0 THEN FZero
    ELSE IF n >= d * Pow2(MantBits) THEN RoundQ(n, 2 * d, e + 1)
    ELSE IF n < d * Pow2(MantBits - 1) THEN RoundQ(2 * n, d, e - 1)
    ELSE LET q == n \div d
             r == n % d
             up == (2 * r > d) \/ (2 * r = d /\ q % 2 = 1)
             m == IF up THEN q + 1 ELSE q
         IN IF m = Pow2(MantBits)
            THEN [m |-> Pow2(MantBits - 1), e |-> e + 1]
            ELSE [m |-> m, e |-> e]

\* the float nearest to the rational (n / d) * 2^e of either sign, d > 0
WithSign(sign, f) == [m |-> sign * f.m, e |-> f.e]

RoundS(n, d, e) == WithSign(Sign(n), RoundQ(Abs(n), d, e))

\* conversion of an integer (a JSON number literal, a Go int) to float64
FromInt(i) == RoundS(i, 1, 0)

\* the float64 value of a decimal constant n/d of the source text
FConst(n, d) == RoundS(n, d, 0)

MinInt(a, b) == IF a < b THEN a ELSE b

\* a.m * 2^a.e and b.m * 2^b.e as integers over the common exponent
AlignedAt(a, b, emin) ==
    [x |-> a.m * Pow2(a.e - emin), y |-> b.m * Pow2(b.e - emin), e |-> emin]

Aligned(a, b) == AlignedAt(a, b, MinInt(a.e, b.e))

\* the float nearest to the sum of an aligned pair
SumOf(al) == RoundS(al.x + al.y, 1, al.e)

FNeg(a) == [m |-> -a.m, e |-> a.e]

FAdd(a, b) == SumOf(Aligned(a, b))

FSub(a, b) == FAdd(a, FNeg(b))

FMul(a, b) == RoundS(a.m * b.m, 1, a.e + b.e)

\* b is not zero
FDiv(a, b) == RoundS(Sign(b.m) * a.m, Abs(b.m), a.e - b.e)

\* a + b * c with a single rounding (fused multiply-add)
FMulAdd(a, b, c) == SumOf(Aligned(a, [m |-> b.m * c.m, e |-> b.e + c.e]))

\* a + b * c as the build computes it: fused, or rounded after each operation
MulThenAdd(fma, a, b, c) == IF fma THEN FMulAdd(a, b, c) ELSE FAdd(a, FMul(b, c))

\* the sign of a - b: -1, 0 or 1
Compare(al) == IF al.x < al.y THEN -1 ELSE IF al.x = al.y THEN 0 ELSE 1

FLt(a, b) == Compare(Aligned(a, b)) < 0

FLe(a, b) == Compare(Aligned(a, b)) <= 0

FGt(a, b) == FLt(b, a)

FGe(a, b) == FLe(b, a)

(***************************************************************************)
(* Decision and its JSON decoding                                          *)
(***************************************************************************)
\* value of key k of JSON object o as an integer literal; 0 when the key is absent
NumField(o, k) == IF k \in DOMAIN o THEN o[k] ELSE 0

StrField(o, k) == IF k \in DOMAIN o THEN o[k] ELSE ""

\* json.Unmarshal of one JSON object into a Decision: the struct's keys are
\* read (numbers into int or float64), every other key of the object is dropped
Decision(o) ==
    [Symbol          |-> StrField(o, "symbol"),
     Action          |-> StrField(o, "action"),
     Leverage        |-> NumField(o, "leverage"),
     PositionSizeUSD |-> FromInt(NumField(o, "position_size_usd")),
     StopLoss        |-> FromInt(NumField(o, "stop_loss")),
     TakeProfit      |-> FromInt(NumField(o, "take_profit")),
     Confidence      |-> NumField(o, "confidence"),
     RiskUSD         |-> FromInt(NumField(o, "risk_usd"))]

(***************************************************************************)
(* Decision validator                                                      *)
(***************************************************************************)
\* the action set with partial_close let through
validActions_partial ==
    {"open_long", "open_short", "close_long", "close_short", "hold", "wait", "partial_close"}

\* the action set with the stop-loss and take-profit updates let through
validActions_update ==
    {"open_long", "open_short", "close_long", "close_short", "hold", "wait",
     "update_stop_loss", "update_take_profit"}

\* the action set with wait forgotten
validActions_nowait == {"open_long", "open_short", "close_long", "close_short", "hold"}

validActions == {"open_long", "open_short", "close_long", "close_short", "hold", "wait"}

IsOpen(d) == d.Action = "open_long" \/ d.Action = "open_short"

IsMajor(d) == d.Symbol = "BTCUSDT" \/ d.Symbol = "ETHUSDT"

\* only BTCUSDT gets the BTC/ETH cap
maxLeverage_btcOnly(d, btcEthLeverage, altcoinLeverage) ==
    IF d.Symbol = "BTCUSDT" THEN btcEthLeverage ELSE altcoinLeverage

maxLeverage(d, btcEthLeverage, altcoinLeverage) ==
    IF IsMajor(d) THEN btcEthLeverage ELSE altcoinLeverage

maxPositionValue(d, accountEquity) ==
    IF IsMajor(d) THEN FMul(accountEquity, FromInt(10))
                  ELSE FMul(accountEquity, FConst(3, 2))

\* a limit without the tolerance
withTolerance_none(fma, mpv) == mpv

\* maxPositionValue + tolerance, tolerance being maxPositionValue * 0.01
withTolerance(fma, mpv) == MulThenAdd(fma, mpv, mpv, FConst(1, 100))

positionLimit(fma, d, accountEquity) ==
    withTolerance(fma, maxPositionValue(d, accountEquity))

\* an entry half of the way from stop-loss to take-profit
entryPrice_half(fma, d) ==
    IF d.Action = "open_long"
    THEN MulThenAdd(fma, d.StopLoss, FSub(d.TakeProfit, d.StopLoss), FConst(1, 2))
    ELSE MulThenAdd(fma, d.StopLoss, FNeg(FSub(d.StopLoss, d.TakeProfit)), FConst(1, 2))

\* the synthetic entry price, 20% of the way from stop-loss to take-profit
entryPrice(fma, d) ==
    IF d.Action = "open_long"
    THEN MulThenAdd(fma, d.StopLoss, FSub(d.TakeProfit, d.StopLoss), FConst(2, 10))
    ELSE MulThenAdd(fma, d.StopLoss, FNeg(FSub(d.StopLoss, d.TakeProfit)), FConst(2, 10))

\* riskPercent of the source for the entry price entry
riskPercentAt(entry, d) ==
    IF d.Action = "open_long"
    THEN FMul(FDiv(FSub(entry, d.StopLoss), entry), FromInt(100))
    ELSE FMul(FDiv(FSub(d.StopLoss, entry), entry), FromInt(100))

\* rewardPercent of the source for the entry price entry
rewardPercentAt(entry, d) ==
    IF d.Action = "open_long"
    THEN FMul(FDiv(FSub(d.TakeProfit, entry), entry), FromInt(100))
    ELSE FMul(FDiv(FSub(entry, d.TakeProfit), entry), FromInt(100))

\* stays at its zero value unless riskPercent > 0
ratioOf(risk, reward) == IF FGt(risk, FZero) THEN FDiv(reward, risk) ELSE FZero

ratioAt(entry, d) == ratioOf(riskPercentAt(entry, d), rewardPercentAt(entry, d))

riskRewardRatio(fma, d) == ratioAt(entryPrice(fma, d), d)

leverageInvalid(d, btcEthLeverage, altcoinLeverage) ==
    d.Leverage <= 0 \/ d.Leverage > maxLeverage(d, btcEthLeverage, altcoinLeverage)

sizeInvalid(d) == FLe(d.PositionSizeUSD, FZero)

overPositionLimit(fma, d, accountEquity) ==
    FGt(d.PositionSizeUSD, positionLimit(fma, d, accountEquity))

\* a zero stop-loss or take-profit let through
stopTakeInvalid_strict(d) == FLt(d.StopLoss, FZero) \/ FLt(d.TakeProfit, FZero)

stopTakeInvalid(d) == FLe(d.StopLoss, FZero) \/ FLe(d.TakeProfit, FZero)

orderInvalid(d) ==
    IF d.Action = "open_long"
    THEN FGe(d.StopLoss, d.TakeProfit)
    ELSE FLe(d.StopLoss, d.TakeProfit)

\* a ratio left at its zero value let through
ratioTooLow_computed(fma, d) ==
    riskRewardRatio(fma, d) # FZero /\ FLt(riskRewardRatio(fma, d), FromInt(3))

ratioTooLow(fma, d) == FLt(riskRewardRatio(fma, d), FromInt(3))

\* the error of validateDecision, named by the rule that failed; "nil" when valid
validateDecision(fma, d, accountEquity, btcEthLeverage, altcoinLeverage) ==
    IF d.Action \notin validActions THEN "invalid_action"
    ELSE IF ~IsOpen(d) THEN "nil"
    ELSE IF leverageInvalid(d, btcEthLeverage, altcoinLeverage) THEN "leverage"
    ELSE IF sizeInvalid(d) THEN "position_size"
    ELSE IF overPositionLimit(fma, d, accountEquity) THEN "position_value"
    ELSE IF stopTakeInvalid(d) THEN "stop_take_positive"
    ELSE IF orderInvalid(d) THEN "stop_take_order"
    ELSE IF ratioTooLow(fma, d) THEN "risk_reward"
    ELSE "nil"

\* an error value: what failed, and the text its message carries
NoError == [kind |-> "nil", index |-> 0, rule |-> "nil", content |-> << >>]

\* the index of the last error instead of the first
firstInvalid_last(errs, i) ==
    LET bad == {j \in i..Len(errs) : errs[j] # "nil"}
    IN IF bad = {} THEN 0 ELSE CHOOSE j \in bad : \A k \in bad : k <= j

\* the loop of validateDecisions from decision i on, errs[j] being the error of
\* decision j: 0 when none fails, else the 1-based index of the first that fails
RECURSIVE firstInvalid(_, _)
firstInvalid(errs, i) ==
    IF i > Len(errs) THEN 0
    ELSE IF errs[i] # "nil" THEN i
    ELSE firstInvalid(errs, i + 1)

\* the error of validateDecisions: the index and the rule of the first invalid decision
\* the error for the index i of the first invalid decision
errorAt(errs, i) ==
    IF i = 0 THEN NoError ELSE [kind |-> "validate", index |-> i, rule |-> errs[i], content |-> << >>]

firstError(errs) == errorAt(errs, firstInvalid(errs, 1))

validateDecisions(fma, decisions, accountEquity, btcEthLeverage, altcoinLeverage) ==
    firstError([j \in 1..Len(decisions) |->
                    validateDecision(fma, decisions[j], accountEquity,
                                     btcEthLeverage, altcoinLeverage)])

(***************************************************************************)
(* Reply text and the parser                                               *)
(***************************************************************************)
\* a one-character lexeme
Ch(c) == [c |-> c]

\* the quote characters: ASCII double quote and apostrophe, U+201C, U+201D,
\* U+2018 and U+2019
QuoteChars == {"dquote", "squote", "ldquo", "rdquo", "lsquo", "rsquo"}

\* the opening and the closing quote character of every string of an object
AsciiDouble == <<"dquote", "dquote">>

AsciiSingle == <<"squote", "squote">>

CurlyDouble == <<"ldquo", "rdquo">>

CurlySingle == <<"lsquo", "rsquo">>

\* the text of one JSON object with fields o, every string of it opened by
\* the quote character q[1] and closed by q[2]
Obj(o, q) == [c |-> "{", o |-> o, q |-> q]

IsSpace(l) == l.c = " "

\* strings.Index for a one-character pattern: 0-based, -1 when absent
Index(s, c) ==
    IF \E i \in 1..Len(s) : s[i].c = c
    THEN (CHOOSE i \in 1..Len(s) : s[i].c = c /\ \A j \in 1..(i - 1) : s[j].c # c) - 1
    ELSE -1

\* s[from : to] of Go, 0-based and half-open
Slice(s, from, to) == SubSeq(s, from + 1, to)

RECURSIVE TrimLeft(_)
TrimLeft(s) == IF s # << >> /\ IsSpace(Head(s)) THEN TrimLeft(Tail(s)) ELSE s

RECURSIVE TrimRight(_)
TrimRight(s) ==
    IF s # << >> /\ IsSpace(s[Len(s)]) THEN TrimRight(SubSeq(s, 1, Len(s) - 1)) ELSE s

TrimSpace(s) == TrimRight(TrimLeft(s))

cotBefore(response, jsonStart) ==
    IF jsonStart > 0
    THEN TrimSpace(Slice(response, 0, jsonStart))
    ELSE TrimSpace(response)

extractCoTTrace(response) == cotBefore(response, Index(response, "["))

\* a scan that stops at the first "]" whatever the depth
scanBracket_first(s, i, depth) ==
    IF \E j \in (i + 1)..Len(s) : s[j].c = "]"
    THEN (CHOOSE j \in (i + 1)..Len(s) :
            s[j].c = "]" /\ \A k \in (i + 1)..(j - 1) : s[k].c # "]") - 1
    ELSE -1

\* the scan of findMatchingBracket from 0-based position i with the depth so far
RECURSIVE scanBracket(_, _, _)
scanBracket(s, i, depth) ==
    IF i >= Len(s) THEN -1
    ELSE IF s[i + 1].c = "[" THEN scanBracket(s, i + 1, depth + 1)
    ELSE IF s[i + 1].c = "]"
         THEN IF depth - 1 = 0 THEN i ELSE scanBracket(s, i + 1, depth - 1)
    ELSE scanBracket(s, i + 1, depth)

findMatchingBracket(s, start) ==
    IF start >= Len(s) \/ s[start + 1].c # "[" THEN -1
    ELSE scanBracket(s, start, 0)

\* strings.ReplaceAll of the one-character pattern old by new in one lexeme
replaceIn(l, old, new) ==
    IF l.c = "{"
    THEN Obj(l.o, [k \in 1..2 |-> IF l.q[k] = old THEN new ELSE l.q[k]])
    ELSE IF l.c = old THEN Ch(new)
    ELSE l

ReplaceAll(s, old, new) == [i \in 1..Len(s) |-> replaceIn(s[i], old, new)]

\* a normalisation that forgets the closing quotes U+201D and U+2019
fixMissingQuotes_openingOnly(jsonStr) ==
    ReplaceAll(ReplaceAll(jsonStr, "ldquo", "dquote"), "lsquo", "squote")

fixMissingQuotes(jsonStr) ==
    ReplaceAll(ReplaceAll(ReplaceAll(ReplaceAll(jsonStr, "ldquo", "dquote"),
                                     "rdquo", "dquote"),
                          "lsquo", "squote"),
               "rsquo", "squote")

RECURSIVE dropSpaces(_)
dropSpaces(s) ==
    IF s = << >> THEN << >>
    ELSE IF IsSpace(Head(s)) THEN dropSpaces(Tail(s))
    ELSE <<Head(s)>> \o dropSpaces(Tail(s))

\* an object lexeme json.Unmarshal accepts: strings in ASCII double quotes
IsJSONObject(l) == l.c = "{" /\ l.q = AsciiDouble

\* the tokens t are "[", objects separated by ",", "]"
isObjectArray(t, n) ==
    /\ n >= 2
    /\ t[1].c = "["
    /\ t[n].c = "]"
    /\ \/ n = 2
       \/ /\ n % 2 = 1
          /\ \A i \in 2..(n - 1) :
                IF i % 2 = 0 THEN IsJSONObject(t[i]) ELSE t[i].c = ","

unmarshalTokens(t) ==
    IF isObjectArray(t, Len(t))
    THEN [ok |-> TRUE,
          decisions |-> [k \in 1..((Len(t) - 1) \div 2) |-> Decision(t[2 * k].o)]]
    ELSE [ok |-> FALSE, decisions |-> << >>]

\* json.Unmarshal of jsonContent into []Decision: white space between tokens is
\* skipped, the text must be "[" objects separated by "," "]"
unmarshalDecisions(jsonContent) == unmarshalTokens(dropSpaces(jsonContent))

ExtractError(rule, content) ==
    [kind |-> "extract", index |-> 0, rule |-> rule, content |-> content]

\* the return of extractDecisions for the return u of json.Unmarshal
decoded(u, jsonContent) ==
    IF u.ok THEN [decisions |-> u.decisions, err |-> NoError]
    ELSE [decisions |-> << >>, err |-> ExtractError("json", jsonContent)]

\* json.Unmarshal of the normalised array text and its outcome
decodeContent(jsonContent) == decoded(unmarshalDecisions(jsonContent), jsonContent)

\* extractDecisions from the positions of the array on
extractBetween(response, arrayStart, arrayEnd) ==
    IF arrayEnd = -1
    THEN [decisions |-> << >>, err |-> ExtractError("no_array_end", << >>)]
    ELSE decodeContent(
            fixMissingQuotes(TrimSpace(Slice(response, arrayStart, arrayEnd + 1))))

extractFrom(response, arrayStart) ==
    IF arrayStart = -1
    THEN [decisions |-> << >>, err |-> ExtractError("no_array_start", << >>)]
    ELSE extractBetween(response, arrayStart, findMatchingBracket(response, arrayStart))

extractDecisions(response) == extractFrom(response, Index(response, "["))

FullDecision(systemPrompt, userPrompt, cotTrace, decisions, timestamp) ==
    [SystemPrompt |-> systemPrompt, UserPrompt |-> userPrompt, CoTTrace |-> cotTrace,
     Decisions |-> decisions, Timestamp |-> timestamp]

\* the return of parseFullDecisionResponse for the chain-of-thought cotTrace
\* and the result x of extractDecisions
parsedAndValidated(fma, cotTrace, x, accountEquity, btcEthLeverage, altcoinLeverage) ==
    IF x.err # NoError
    THEN [decision |-> FullDecision("", "", cotTrace, << >>, 0), err |-> x.err]
    ELSE [decision |-> FullDecision("", "", cotTrace, x.decisions, 0),
          err |-> validateDecisions(fma, x.decisions, accountEquity,
                                    btcEthLeverage, altcoinLeverage)]

parseFullDecisionResponse(fma, response, accountEquity, btcEthLeverage, altcoinLeverage) ==
    parsedAndValidated(fma, extractCoTTrace(response), extractDecisions(response),
                       accountEquity, btcEthLeverage, altcoinLeverage)

(***************************************************************************)
(* Market snapshot (market.Get and fetchMarketDataForContext)              *)
(***************************************************************************)
\* What the data sources return for one symbol: err3m and err4h tell a failed
\* candle fetch, len3m and len4h the number of candles returned, close the
\* close of the last 3-minute candle, oiErr a failed open-interest fetch and
\* oi the open interest.  Prices and open interest are whole numbers, on
\* which the float64 product and the comparison with the floor are exact.
SourceReply(err3m, len3m, close, err4h, len4h, oiErr, oi) ==
    [err3m |-> err3m, len3m |-> len3m, close |-> close, err4h |-> err4h,
     len4h |-> len4h, oiErr |-> oiErr, oi |-> oi]

\* the number of values calculateLongerTermData appends for n candles when a
\* value is appended from index first on: the indexes max(0, n - 10)..n - 1
seriesLen(n, first) ==
    Cardinality({i \in (IF n - 10 < 0 THEN 0 ELSE n - 10)..(n - 1) : i >= first})

\* market.Data: the fields the decision engine reads; MACDValues and
\* RSI14Values are the lengths of the two series of LongerTermContext
Data(currentPrice, latest, macdValues, rsi14Values) ==
    [CurrentPrice |-> currentPrice, OpenInterest |-> [Latest |-> latest],
     MACDValues |-> macdValues, RSI14Values |-> rsi14Values]

NoData == Data(0, 0, 0, 0)

\* the outcome of market.Get: a panic, an error, or the data
GetOutcome(panic, err, data) == [panic |-> panic, err |-> err, data |-> data]

\* a failed open-interest fetch fails the whole call
Get_oiError(r) ==
    IF r.err3m \/ r.err4h \/ r.oiErr THEN GetOutcome(FALSE, TRUE, NoData)
    ELSE IF r.len3m = 0 THEN GetOutcome(TRUE, FALSE, NoData)
    ELSE GetOutcome(FALSE, FALSE,
                    Data(r.close, r.oi, seriesLen(r.len4h, 25), seriesLen(r.len4h, 14)))

\* market.Get for the source reply r
Get(r) ==
    IF r.err3m \/ r.err4h THEN GetOutcome(FALSE, TRUE, NoData)
    ELSE IF r.len3m = 0 THEN GetOutcome(TRUE, FALSE, NoData)
    ELSE GetOutcome(FALSE, FALSE,
                    Data(r.close, IF r.oiErr THEN 0 ELSE r.oi,
                         seriesLen(r.len4h, 25), seriesLen(r.len4h, 14)))

OIFloorMillions == 15

\* oiValue / 1_000_000 < 15
belowFloor(oiValue) == oiValue < OIFloorMillions * 1000000

\* a filter that does not spare the held symbols
filtered_heldToo(isExistingPosition, data) ==
    /\ data.CurrentPrice > 0
    /\ belowFloor(data.OpenInterest.Latest * data.CurrentPrice)

\* the liquidity filter skips the symbol
filtered(isExistingPosition, data) ==
    /\ ~isExistingPosition
    /\ data.CurrentPrice > 0
    /\ belowFloor(data.OpenInterest.Latest * data.CurrentPrice)

symbolSet(c) == c.Positions \cup c.CandidateCoins

\* a fetch that stores nothing once the fetch of one symbol has failed
storedSymbols_abort(c, replies) ==
    {symbol \in symbolSet(c) :
        /\ \A other \in symbolSet(c) : ~Get(replies[other]).err
        /\ ~filtered(symbol \in c.Positions, Get(replies[symbol]).data)}

\* the symbols fetchMarketDataForContext stores in MarketDataMap
storedSymbols(c, replies) ==
    {symbol \in symbolSet(c) :
        /\ ~Get(replies[symbol]).err
        /\ ~filtered(symbol \in c.Positions, Get(replies[symbol]).data)}

\* pool.GetOITopPositions: an error, or positions for a set of symbols
OITopReply(err, symbols) == [err |-> err, symbols |-> symbols]

OITopData(rank) == [Rank |-> rank]

\* a fetch that fills the maps the context already has
fetchedContext_keep(c, replies, top) ==
    [c EXCEPT
        !.MarketDataMap =
            [symbol \in DOMAIN c.MarketDataMap \cup storedSymbols(c, replies) |->
                IF symbol \in storedSymbols(c, replies)
                THEN Get(replies[symbol]).data
                ELSE c.MarketDataMap[symbol]],
        !.OITopDataMap =
            [symbol \in DOMAIN c.OITopDataMap
                         \cup (IF top.err THEN {} ELSE top.symbols) |-> OITopData(1)]]

\* fetchMarketDataForContext: both maps are made anew and filled
fetchedContext(c, replies, top) ==
    [c EXCEPT
        !.MarketDataMap = [symbol \in storedSymbols(c, replies) |->
                              Get(replies[symbol]).data],
        !.OITopDataMap = [symbol \in (IF top.err THEN {} ELSE top.symbols) |->
                              OITopData(1)]]

\* market.Get indexes the last 3-minute candle of an empty sequence
fetchPanics(c, replies) == \E symbol \in symbolSet(c) : Get(replies[symbol]).panic

\* what a panic leaves behind: both maps made anew, and the data of the
\* symbols the loop reached before (a Go map is ranged over in any order)
interruptedContexts(c, replies) ==
    {[c EXCEPT !.MarketDataMap = [symbol \in reached |-> Get(replies[symbol]).data],
               !.OITopDataMap = << >>] :
        reached \in SUBSET storedSymbols(c, replies)}

(***************************************************************************)
(* Prompts (buildSystemPromptWithCustom, buildSystemPrompt, buildUserPrompt)*)
(***************************************************************************)
\* Prompt text is a sequence of segments; a segment stands for one piece of
\* text the builders write.
Seg(t) == [t |-> t]

Blank == Seg("\n\n")

TemplateContent(name) == [t |-> "template", name |-> name]

\* the part of the base prompt that comes from the template store
templatePart(name, store) ==
    IF name \in store THEN <<TemplateContent(name), Blank>>
    ELSE IF "default" \in store THEN <<TemplateContent("default"), Blank>>
    ELSE <<Seg("builtin")>>

HardConstraints(accountEquity, btcEthLeverage, altcoinLeverage) ==
    [t |-> "hard_constraints", accountEquity |-> accountEquity,
     btcEthLeverage |-> btcEthLeverage, altcoinLeverage |-> altcoinLeverage]

OutputFormat(accountEquity, btcEthLeverage) ==
    [t |-> "output_format", accountEquity |-> accountEquity,
     btcEthLeverage |-> btcEthLeverage]

buildSystemPrompt(accountEquity, btcEthLeverage, altcoinLeverage, templateName, store) ==
    templatePart(IF templateName = "" THEN "default" ELSE templateName, store)
        \o <<HardConstraints(accountEquity, btcEthLeverage, altcoinLeverage),
             OutputFormat(accountEquity, btcEthLeverage)>>

\* the base prompt with the custom part appended
withCustom(basePrompt, customPrompt) ==
    IF customPrompt = << >> THEN basePrompt
    ELSE basePrompt \o <<Blank, Seg("custom_header")>> \o customPrompt
            \o <<Blank, Seg("disclaimer")>>

\* a builder that returns the custom prompt whenever override is set
buildSystemPromptWithCustom_anyOverride(accountEquity, btcEthLeverage, altcoinLeverage, customPrompt, overrideBase, templateName, store) ==
    IF overrideBase THEN customPrompt
    ELSE withCustom(buildSystemPrompt(accountEquity, btcEthLeverage, altcoinLeverage,
                                      templateName, store),
                    customPrompt)

buildSystemPromptWithCustom(accountEquity, btcEthLeverage, altcoinLeverage, customPrompt, overrideBase, templateName, store) ==
    IF overrideBase /\ customPrompt # << >> THEN customPrompt
    ELSE withCustom(buildSystemPrompt(accountEquity, btcEthLeverage, altcoinLeverage,
                                      templateName, store),
                    customPrompt)

\* the symbols whose series buildUserPrompt indexes at len - 1 and len - 3
indexedSymbols(c) ==
    (c.CandidateCoins \cup {"BTCUSDT"}) \cap DOMAIN c.MarketDataMap

\* buildUserPrompt indexes out of range
userPromptPanics(c) ==
    \E symbol \in indexedSymbols(c) :
        \/ c.MarketDataMap[symbol].MACDValues < 3
        \/ c.MarketDataMap[symbol].RSI14Values < 3

\* the text of buildUserPrompt: the data it renders
buildUserPrompt(c) ==
    [btc |-> [symbol \in {"BTCUSDT"} \cap DOMAIN c.MarketDataMap |->
                 c.MarketDataMap[symbol]],
     equity |-> c.TotalEquity,
     positions |-> [symbol \in c.Positions \cap DOMAIN c.MarketDataMap |->
                       c.MarketDataMap[symbol]],
     candidates |-> [symbol \in c.CandidateCoins \cap DOMAIN c.MarketDataMap |->
                        [data |-> c.MarketDataMap[symbol],
                         hasOI |-> symbol \in DOMAIN c.OITopDataMap]]]

NoPrompts == [system |-> << >>, user |-> << >>]

(***************************************************************************)
(* Inputs                                                                  *)
(***************************************************************************)
\* the JSON object r without the keys in omitted
Without(r, omitted) == [k \in DOMAIN r \ omitted |-> r[k]]

Symbols == {"BTCUSDT", "ETHUSDT", "SOLUSDT"}

OpenActions == {"open_long", "open_short"}

OtherActions == {"close_long", "close_short", "hold", "wait", "close",
                 "update_stop_loss", "update_take_profit", "partial_close", ""}

LeverageCaps == {MaxLeverage - 2, MaxLeverage}

LeverageInputs == (-1)..(MaxLeverage + 1)

\* the last two are neighbouring floats: 128 and 129 when MantBits = 8
PriceInputs == {0, 100, 120, Pow2(MantBits - 1), Pow2(MantBits - 1) + 1}

SizeInputs == {0, 100, 2000}

ConfidenceInputs == {50}

RiskInputs == {0, 5}

OpenObjects ==
    {Without([symbol |-> s, action |-> a, leverage |-> l, position_size_usd |-> z,
              stop_loss |-> sl, take_profit |-> tp, confidence |-> c, risk_usd |-> r], om) :
        s \in Symbols, a \in OpenActions, l \in LeverageInputs, z \in SizeInputs,
        sl \in PriceInputs, tp \in PriceInputs, c \in ConfidenceInputs, r \in RiskInputs,
        om \in SUBSET {"confidence", "risk_usd"}}

OtherObjects ==
    {Without([symbol |-> s, action |-> a, leverage |-> l, stop_loss |-> 100,
              close_percentage |-> cp, new_stop_loss |-> nsl, new_take_profit |-> ntp], om) :
        s \in {"BTCUSDT", "SOLUSDT"}, a \in OtherActions, l \in {0, MaxLeverage + 1},
        cp \in {0, 100, 150}, nsl \in {0, 100}, ntp \in {0, 100},
        om \in SUBSET {"leverage", "stop_loss", "close_percentage", "new_stop_loss",
                       "new_take_profit"}}

WireObjects == OpenObjects \cup OtherObjects

Equities == {100}

\* the leverage configurations: a pair of different caps
LeverageConfigs == {c \in LeverageCaps \X LeverageCaps : c[1] # c[2]}

\* the contexts before the first cycle: nothing held, no candidates, no maps
Contexts ==
    {[TotalEquity |-> FromInt(q), BTCETHLeverage |-> c[1], AltcoinLeverage |-> c[2],
      Positions |-> {}, CandidateCoins |-> {}, MarketDataMap |-> << >>,
      OITopDataMap |-> << >>] :
        q \in Equities, c \in LeverageConfigs}

\* what the sources return during one fetch: the reply for every symbol
\* asked for, and the reply of the OI ranking
Sources(replies, top) == [replies |-> replies, top |-> top]

\* the record of one fetch: what the sources returned, and the keys the two
\* maps of the context c held when the fetch began
Observed(r, c) ==
    [replies |-> r.replies, top |-> r.top,
     before |-> [MarketDataMap |-> DOMAIN c.MarketDataMap,
                 OITopDataMap |-> DOMAIN c.OITopDataMap]]

NoSources ==
    [replies |-> << >>, top |-> OITopReply(TRUE, {}),
     before |-> [MarketDataMap |-> {}, OITopDataMap |-> {}]]

\* the arguments of GetFullDecisionWithCustomPrompt next to ctx and the
\* gateway, and the names the template store holds
Args(customPrompt, overrideBase, templateName, store) ==
    [customPrompt |-> customPrompt, overrideBase |-> overrideBase,
     templateName |-> templateName, store |-> store]

NoArgs == Args(<< >>, FALSE, "", {})

NoWire == [symbol |-> ""]

\* a returned pair (*FullDecision, error); isNil tells a nil pointer
Returned(isNil, decision, err) == [isNil |-> isNil, decision |-> decision, err |-> err]

NoDecision == FullDecision("", "", << >>, << >>, 0)

NoResult == Returned(TRUE, NoDecision, NoError)

\* no indicator has been computed
NoAnalysis == [kind |-> "none"]

\* a stopped trader: no run loop launched, no request received
NoTrader == [isRunning |-> FALSE, loops |-> << >>, requests |-> << >>]

(***************************************************************************)
(* Specification of the validator applied to one decoded decision          *)
(***************************************************************************)
InitValidate ==
    /\ ctx \in Contexts
    /\ fused \in BOOLEAN
    /\ pc = "validate"
    /\ aiResponse = << >>
    /\ result = NoResult
    /\ wire \in WireObjects
    /\ verdict = "none"
    /\ sources = NoSources
    /\ args = NoArgs
    /\ prompts = NoPrompts
    /\ calls = << >>
    /\ trace = << >>
    /\ klines = << >>
    /\ analysis = NoAnalysis
    /\ trader = NoTrader

ValidateOne ==
    /\ pc = "validate"
    /\ verdict' = validateDecision(fused, Decision(wire), ctx.TotalEquity,
                                   ctx.BTCETHLeverage, ctx.AltcoinLeverage)
    /\ pc' = "validated"
    /\ UNCHANGED <<marketVars, trader, ctx, fused, aiResponse, result, wire, cycleVars>>

NextValidate == ValidateOne

SpecValidate == InitValidate /\ [][NextValidate]_vars

(***************************************************************************)
(* Specification of the validator applied to open decisions of many sizes, *)
(* on accounts of several equities                                         *)
(***************************************************************************)
\* an account without equity, and two whose limits are whole numbers
SizeEquities == {0, 10, 20}

\* sizes at and next to the limits 15.15, 30.3, 101 and 202
SizeSizes == {-5, 0, 1, 15, 16, 30, 31, 101, 102, 202, 203}

\* open decisions whose stop-loss and take-profit are in order
SizeObjects ==
    {[symbol |-> s, action |-> a, leverage |-> l, position_size_usd |-> z,
      stop_loss |-> IF a = "open_long" THEN 100 ELSE 120,
      take_profit |-> IF a = "open_long" THEN 120 ELSE 100,
      confidence |-> 80, risk_usd |-> 5] :
        s \in Symbols, a \in OpenActions, l \in {0, 1}, z \in SizeSizes}

SizeContexts ==
    {[c EXCEPT !.TotalEquity = FromInt(q)] : c \in Contexts, q \in SizeEquities}

InitSize ==
    /\ ctx \in SizeContexts
    /\ fused \in BOOLEAN
    /\ pc = "validate"
    /\ aiResponse = << >>
    /\ result = NoResult
    /\ wire \in SizeObjects
    /\ verdict = "none"
    /\ sources = NoSources
    /\ args = NoArgs
    /\ prompts = NoPrompts
    /\ calls = << >>
    /\ trace = << >>
    /\ klines = << >>
    /\ analysis = NoAnalysis
    /\ trader = NoTrader

SpecSize == InitSize /\ [][NextValidate]_vars

(***************************************************************************)
(* Specification of the snapshot (fetchMarketDataForContext), run again and *)
(* again on the same context                                               *)
(***************************************************************************)
\* what the data sources return in the modelled cycles: one 3-minute candle
\* closing at 3 and an open interest of 5,000,000, with 28 4-hour candles,
\* with 27 of them, and no 3-minute candle at all
FullReply == SourceReply(FALSE, 1, 3, FALSE, 28, FALSE, 5000000)

ShortReply == SourceReply(FALSE, 1, 3, FALSE, 27, FALSE, 5000000)

EmptyReply == SourceReply(FALSE, 0, 0, FALSE, 0, FALSE, 5000000)

SnapshotSymbols == {"BTCUSDT", "SOLUSDT"}

\* a failed candle fetch, no 3-minute candle, and the successful fetches: a
\* close of 3 with an open interest of 4,000,000 (12,000,000 USD), of
\* 5,000,000 (15,000,000 USD) and with a failed open-interest fetch, and a
\* close of 0
SnapshotReplies ==
    {SourceReply(TRUE, 0, 0, FALSE, 0, FALSE, 0),
     EmptyReply,
     SourceReply(FALSE, 1, 3, FALSE, 28, FALSE, 4000000),
     FullReply,
     SourceReply(FALSE, 1, 3, FALSE, 28, TRUE, 0),
     SourceReply(FALSE, 1, 0, FALSE, 28, FALSE, 5000000)}

TopReplies == {OITopReply(TRUE, {}), OITopReply(FALSE, {"SOLUSDT"})}

\* one context of Contexts: the leverage caps play no part in the snapshot
SnapshotContexts == {c \in Contexts : c.BTCETHLeverage = MaxLeverage}

InitSnapshot ==
    /\ ctx \in SnapshotContexts
    /\ fused = FALSE
    /\ pc = "idle"
    /\ aiResponse = << >>
    /\ result = NoResult
    /\ wire = NoWire
    /\ verdict = "none"
    /\ sources = NoSources
    /\ args = NoArgs
    /\ prompts = NoPrompts
    /\ calls = << >>
    /\ trace = << >>
    /\ klines = << >>
    /\ analysis = NoAnalysis
    /\ trader = NoTrader

\* fetchMarketDataForContext runs on the context c while the sources return r
Fetched(c, r) ==
    /\ sources' = Observed(r, c)
    /\ IF fetchPanics(c, r.replies)
       THEN /\ ctx' \in interruptedContexts(c, r.replies)
            /\ pc' = "panicked"
       ELSE /\ ctx' = fetchedContext(c, r.replies, r.top)
            /\ pc' = "fetched"

\* the caller sets the held and the candidate symbols of the context and
\* fetches the snapshot
FetchMarketData ==
    /\ pc \in {"idle", "fetched"}
    /\ \E positions \in SUBSET {"SOLUSDT"}, candidates \in SUBSET SnapshotSymbols,
          top \in TopReplies :
          \E replies \in [positions \cup candidates -> SnapshotReplies] :
              Fetched([ctx EXCEPT !.Positions = positions, !.CandidateCoins = candidates],
                      Sources(replies, top))
    /\ UNCHANGED <<marketVars, trader, fused, aiResponse, result, wire, verdict, args, prompts, calls, trace>>

NextSnapshot == FetchMarketData

SpecSnapshot == InitSnapshot /\ [][NextSnapshot]_vars

\* the system prompt of the cycle on context c called with the arguments a
systemPromptOf(c, a) ==
    buildSystemPromptWithCustom(c.TotalEquity, c.BTCETHLeverage, c.AltcoinLeverage,
                                a.customPrompt, a.overrideBase, a.templateName, a.store)

(***************************************************************************)
(* Specification of the system prompt (buildSystemPromptWithCustom)        *)
(***************************************************************************)
\* no custom prompt, custom prompts of one and two segments, and a custom
\* prompt that is the text of a base prompt
CustomPrompts ==
    {<< >>, <<Seg("custom")>>, <<Seg("custom"), Seg("more")>>,
     buildSystemPrompt(FromInt(100), MaxLeverage, MaxLeverage - 2, "", {"default"})}

TemplateNames == {"", "default", "aggressive", "missing"}

TemplateStores == SUBSET {"default", "aggressive"}

PromptArgs ==
    {Args(customPrompt, overrideBase, templateName, store) :
        customPrompt \in CustomPrompts, overrideBase \in BOOLEAN,
        templateName \in TemplateNames, store \in TemplateStores}

InitPrompt ==
    /\ ctx \in Contexts
    /\ fused = FALSE
    /\ pc = "build"
    /\ aiResponse = << >>
    /\ result = NoResult
    /\ wire = NoWire
    /\ verdict = "none"
    /\ sources = NoSources
    /\ args \in PromptArgs
    /\ prompts = NoPrompts
    /\ calls = << >>
    /\ trace = << >>
    /\ klines = << >>
    /\ analysis = NoAnalysis
    /\ trader = NoTrader

BuildSystemPrompt ==
    /\ pc = "build"
    /\ prompts' = [system |-> systemPromptOf(ctx, args), user |-> << >>]
    /\ pc' = "built"
    /\ UNCHANGED <<marketVars, trader, ctx, fused, aiResponse, result, wire, verdict, sources, args, calls, trace>>

NextPrompt == BuildSystemPrompt

SpecPrompt == InitPrompt /\ [][NextPrompt]_vars

(***************************************************************************)
(* Specification of the decision cycle (GetFullDecisionWithCustomPrompt)   *)
(***************************************************************************)
\* the JSON objects the modelled gateway puts into its replies
HoldObject == [symbol |-> "SOLUSDT", action |-> "hold"]

GoodOpen ==
    [symbol |-> "BTCUSDT", action |-> "open_long", leverage |-> 1,
     position_size_usd |-> 100, stop_loss |-> 100, take_profit |-> 120,
     confidence |-> 80, risk_usd |-> 5]

BadLeverageOpen ==
    [symbol |-> "SOLUSDT", action |-> "open_short", leverage |-> 0,
     position_size_usd |-> 100, stop_loss |-> 120, take_profit |-> 100,
     confidence |-> 80, risk_usd |-> 5]

BadActionObject == [symbol |-> "BTCUSDT", action |-> "partial_close",
                    close_percentage |-> 100]

ReplyObjects == {HoldObject, GoodOpen, BadLeverageOpen, BadActionObject}

\* every text of at most n lexemes over the alphabet
TextsUpTo(alphabet, n) == UNION {[1..k -> alphabet] : k \in 0..n}

ShortAlphabet == {Ch("["), Ch("]"), Ch(","), Ch(" "), Ch("t"), Obj(HoldObject, AsciiDouble)}

ShortTexts == TextsUpTo(ShortAlphabet, MaxTextLen)

\* the text of a JSON array of the objects os
RECURSIVE Joined(_, _)
Joined(os, q) ==
    IF os = << >> THEN << >>
    ELSE IF Len(os) = 1 THEN <<Obj(os[1], q)>>
    ELSE <<Obj(os[1], q), Ch(",")>> \o Joined(Tail(os), q)

ArrayText(os, q) == <<Ch("[")>> \o Joined(os, q) \o <<Ch("]")>>

\* the quote characters the modelled gateway delimits strings with
QuoteStyles == {AsciiDouble, CurlyDouble, CurlySingle}

Preambles == {<< >>, <<Ch("t")>>, <<Ch(" "), Ch("t"), Ch(" ")>>}

Trailers == {<< >>, <<Ch("t")>>}

\* arrays in ASCII quotes within prose, and bare arrays in every quote style
ArrayReplies ==
    {pre \o ArrayText(os, AsciiDouble) \o post :
        pre \in Preambles, os \in TextsUpTo(ReplyObjects, MaxDecisions), post \in Trailers}
    \cup {ArrayText(os, q) : os \in TextsUpTo(ReplyObjects, MaxDecisions), q \in QuoteStyles}

\* arrays of loose quote characters
QuoteAlphabet == {Ch(c) : c \in QuoteChars} \cup {Ch("t")}

QuoteReplies == {<<Ch("[")>> \o t \o <<Ch("]")>> : t \in TextsUpTo(QuoteAlphabet, 2)}

\* texts that open an array within an array
NestedReplies ==
    {<<Ch("["), Ch("[")>> \o t \o <<Ch("]")>> \o post :
        t \in TextsUpTo({Ch("]"), Ch("t")}, 2), post \in Trailers}

Replies == ShortTexts \cup ArrayReplies \cup QuoteReplies \cup NestedReplies

\* SOLUSDT is held and BTCUSDT is the candidate
CycleContexts(c) ==
    {[c EXCEPT !.Positions = {"SOLUSDT"}, !.CandidateCoins = {"BTCUSDT"}]}

CycleSources ==
    {Sources([symbol \in {"SOLUSDT", "BTCUSDT"} |->
                 IF symbol = "SOLUSDT" THEN FullReply ELSE r],
             OITopReply(FALSE, {"BTCUSDT"})) :
        r \in {FullReply, ShortReply, EmptyReply}}

\* a custom prompt without override, on the default template
CycleArgs == {Args(<<Seg("custom")>>, FALSE, "", {"default"})}

\* a cycle that hands back the parsed decision without the prompts
afterParse_noPrompts(p, systemPrompt, userPrompt) ==
    Returned(FALSE, p.decision, p.err)

\* a cycle that fills the prompts and the timestamp before it tests the error
afterParse_filled(p, systemPrompt, userPrompt) ==
    Returned(FALSE,
             FullDecision(systemPrompt, userPrompt, p.decision.CoTTrace,
                          p.decision.Decisions, 1),
             p.err)

\* what the cycle returns for the return p of parseFullDecisionResponse
afterParse(p, systemPrompt, userPrompt) ==
    IF p.err # NoError THEN Returned(FALSE, p.decision, p.err)
    ELSE Returned(FALSE,
                  FullDecision(systemPrompt, userPrompt, p.decision.CoTTrace,
                               p.decision.Decisions, 1),
                  NoError)

CallError == [kind |-> "call", index |-> 0, rule |-> "nil", content |-> << >>]

\* the steps of parseFullDecisionResponse that ran for the reply
parseSteps(response) ==
    IF extractDecisions(response).err = NoError THEN <<"parse", "validate">>
    ELSE <<"parse">>

Init ==
    /\ ctx \in Contexts
    /\ fused \in BOOLEAN
    /\ pc = "idle"
    /\ aiResponse = << >>
    /\ result = NoResult
    /\ wire = NoWire
    /\ verdict = "none"
    /\ sources = NoSources
    /\ args = NoArgs
    /\ prompts = NoPrompts
    /\ calls = << >>
    /\ trace = << >>
    /\ klines = << >>
    /\ analysis = NoAnalysis
    /\ trader = NoTrader

\* both prompts are built on the fetched context c
PromptsBuilt(c, a) ==
    /\ ctx' = c
    /\ trace' = <<"fetch", "system_prompt", "user_prompt">>
    /\ IF userPromptPanics(c)
       THEN /\ prompts' = [system |-> systemPromptOf(c, a), user |-> << >>]
            /\ pc' = "panicked"
       ELSE /\ prompts' = [system |-> systemPromptOf(c, a), user |-> buildUserPrompt(c)]
            /\ pc' = "calling"

\* the cycle is entered on context c with the arguments a while the sources
\* return r: the snapshot is fetched and the prompts are built
Prepared(c, r, a) ==
    /\ sources' = Observed(r, c)
    /\ args' = a
    /\ IF fetchPanics(c, r.replies)
       THEN /\ ctx' \in interruptedContexts(c, r.replies)
            /\ prompts' = NoPrompts
            /\ trace' = <<"fetch">>
            /\ pc' = "panicked"
       ELSE PromptsBuilt(fetchedContext(c, r.replies, r.top), a)

\* the cycle is entered and reaches the gateway call, or panics on the way
StartCycle ==
    /\ pc = "idle"
    /\ \E c \in CycleContexts(ctx), r \in CycleSources, a \in CycleArgs : Prepared(c, r, a)
    /\ aiResponse' = << >>
    /\ result' = NoResult
    /\ calls' = << >>
    /\ UNCHANGED <<marketVars, trader, fused, wire, verdict>>

\* a cycle that calls the gateway again after a failed call
CallFails_retry ==
    /\ pc = "calling"
    /\ calls' = Append(calls, prompts)
    /\ trace' = Append(trace, "call")
    /\ pc' = IF Len(calls) = 0 THEN "calling" ELSE "returned"
    /\ result' = IF Len(calls) = 0 THEN result ELSE Returned(TRUE, NoDecision, CallError)
    /\ UNCHANGED <<marketVars, trader, ctx, fused, aiResponse, wire, verdict, sources, args, prompts>>

\* CallWithMessages returns an error: the cycle returns nil and the error
CallFails ==
    /\ pc = "calling"
    /\ calls' = Append(calls, prompts)
    /\ trace' = Append(trace, "call")
    /\ pc' = "returned"
    /\ result' = Returned(TRUE, NoDecision, CallError)
    /\ UNCHANGED <<marketVars, trader, ctx, fused, aiResponse, wire, verdict, sources, args, prompts>>

\* CallWithMessages returns the reply text
CallReturns ==
    /\ pc = "calling"
    /\ calls' = Append(calls, prompts)
    /\ trace' = Append(trace, "call")
    /\ \E reply \in Replies : aiResponse' = reply
    /\ pc' = "parsing"
    /\ UNCHANGED <<marketVars, trader, ctx, fused, result, wire, verdict, sources, args, prompts>>

\* the reply is parsed and validated, and the cycle returns
ParseAndReturn ==
    /\ pc = "parsing"
    /\ result' = afterParse(parseFullDecisionResponse(fused, aiResponse, ctx.TotalEquity,
                                                      ctx.BTCETHLeverage, ctx.AltcoinLeverage),
                            prompts.system, prompts.user)
    /\ trace' = trace \o parseSteps(aiResponse)
    /\ pc' = "returned"
    /\ UNCHANGED <<marketVars, trader, ctx, fused, aiResponse, wire, verdict, sources, args, prompts, calls>>

\* the caller builds a new context for the next cycle
NextCycle ==
    /\ pc = "returned"
    /\ pc' = "idle"
    /\ ctx' = [ctx EXCEPT !.Positions = {}, !.CandidateCoins = {},
                          !.MarketDataMap = << >>, !.OITopDataMap = << >>]
    /\ aiResponse' = << >>
    /\ result' = NoResult
    /\ sources' = NoSources
    /\ args' = NoArgs
    /\ prompts' = NoPrompts
    /\ calls' = << >>
    /\ trace' = << >>
    /\ UNCHANGED <<marketVars, trader, fused, wire, verdict>>

Next == StartCycle \/ CallFails \/ CallReturns \/ ParseAndReturn \/ NextCycle

Spec == Init /\ [][Next]_vars

(***************************************************************************)
(* The variables of the decision engine, for the specifications that leave *)
(* it alone                                                                *)
(***************************************************************************)
decisionVars == <<ctx, aiResponse, result, wire, verdict, cycleVars>>

DecisionUnused ==
    /\ ctx \in SnapshotContexts
    /\ aiResponse = << >>
    /\ result = NoResult
    /\ wire = NoWire
    /\ verdict = "none"
    /\ sources = NoSources
    /\ args = NoArgs
    /\ prompts = NoPrompts
    /\ calls = << >>
    /\ trace = << >>

(***************************************************************************)
(* Specification of the start and stop requests of one trader              *)
(* (handleStartTrader, handleStopTrader).  A handler reads the status of   *)
(* the trader and acts on it in two steps, other requests and the run      *)
(* loops running in between.  The run loop (AutoTrader.Run) marks the      *)
(* trader running when it begins, runs one cycle after the other, each to  *)
(* completion, and exits when it finds the trader stopped between two      *)
(* cycles; AutoTrader.Stop marks the trader stopped.                       *)
(***************************************************************************)
\* a request: its kind, "passed" between the status check and the action, and
\* the response once it is "done"
Request(kind, at, response) == [kind |-> kind, pc |-> at, response |-> response]

\* the run loops that have not exited
ActiveLoops == {l \in DOMAIN trader.loops : trader.loops[l] # "exited"}

InitTrader ==
    /\ DecisionUnused
    /\ fused = FALSE
    /\ pc = "serving"
    /\ klines = << >>
    /\ analysis = NoAnalysis
    /\ trader = NoTrader

\* handleStartTrader up to the status check: an unknown trader and a running
\* trader are answered with an error
StartChecks ==
    /\ pc = "serving"
    /\ Len(trader.requests) < MaxRequests
    /\ \E known \in BOOLEAN :
          trader' = [trader EXCEPT !.requests =
              Append(@, IF ~known THEN Request("start", "done", "not_found")
                        ELSE IF trader.isRunning
                             THEN Request("start", "done", "already_running")
                             ELSE Request("start", "passed", "none"))]
    /\ UNCHANGED <<decisionVars, fused, pc, marketVars>>

\* handleStartTrader after the check: the run loop is launched in a goroutine
\* and the request is answered
StartLaunches ==
    /\ pc = "serving"
    /\ \E i \in DOMAIN trader.requests :
          /\ trader.requests[i] = Request("start", "passed", "none")
          /\ trader' = [trader EXCEPT !.requests[i] = Request("start", "done", "started"),
                                      !.loops = Append(@, "launched")]
    /\ UNCHANGED <<decisionVars, fused, pc, marketVars>>

\* handleStopTrader up to the status check: an unknown trader and a stopped
\* trader are answered with an error
StopChecks ==
    /\ pc = "serving"
    /\ Len(trader.requests) < MaxRequests
    /\ \E known \in BOOLEAN :
          trader' = [trader EXCEPT !.requests =
              Append(@, IF ~known THEN Request("stop", "done", "not_found")
                        ELSE IF ~trader.isRunning
                             THEN Request("stop", "done", "already_stopped")
                             ELSE Request("stop", "passed", "none"))]
    /\ UNCHANGED <<decisionVars, fused, pc, marketVars>>

\* handleStopTrader after the check: trader.Stop() and the answer
StopActs ==
    /\ pc = "serving"
    /\ \E i \in DOMAIN trader.requests :
          /\ trader.requests[i] = Request("stop", "passed", "none")
          /\ trader' = [trader EXCEPT !.requests[i] = Request("stop", "done", "stopped"),
                                      !.isRunning = FALSE]
    /\ UNCHANGED <<decisionVars, fused, pc, marketVars>>

\* a launched run loop begins: it marks the trader running and starts its
\* first cycle
RunBegins ==
    /\ pc = "serving"
    /\ \E l \in DOMAIN trader.loops :
          /\ trader.loops[l] = "launched"
          /\ trader' = [trader EXCEPT !.loops[l] = "in_cycle", !.isRunning = TRUE]
    /\ UNCHANGED <<decisionVars, fused, pc, marketVars>>

\* a cycle of a run loop completes
CycleEnds ==
    /\ pc = "serving"
    /\ \E l \in DOMAIN trader.loops :
          /\ trader.loops[l] = "in_cycle"
          /\ trader' = [trader EXCEPT !.loops[l] = "waiting"]
    /\ UNCHANGED <<decisionVars, fused, pc, marketVars>>

\* between two cycles a run loop starts the next cycle, or exits when the
\* trader has been stopped
NextTick ==
    /\ pc = "serving"
    /\ \E l \in DOMAIN trader.loops :
          /\ trader.loops[l] = "waiting"
          /\ trader' = [trader EXCEPT !.loops[l] =
                            IF trader.isRunning THEN "in_cycle" ELSE "exited"]
    /\ UNCHANGED <<decisionVars, fused, pc, marketVars>>

NextTrader ==
    StartChecks \/ StartLaunches \/ StopChecks \/ StopActs
        \/ RunBegins \/ CycleEnds \/ NextTick

SpecTrader == InitTrader /\ [][NextTrader]_vars

(***************************************************************************)
(* Indicator engine (market/data.go): candles and float64 helpers          *)
(***************************************************************************)
\* a candle; its fields are floats
Kline(open, high, low, close, volume) ==
    [Open |-> open, High |-> high, Low |-> low, Close |-> close, Volume |-> volume]

\* math.Abs and math.Max
FAbs(a) == [m |-> Abs(a.m), e |-> a.e]

FMax(a, b) == IF FGe(a, b) THEN a ELSE b

\* klines[:n] of the source
Prefix(ks, n) == SubSeq(ks, 1, n)

\* the last n candles, klines[len(klines)-n:]
LastN(ks, n) == SubSeq(ks, Len(ks) - n + 1, Len(ks))

\* TRUE; it makes a loop evaluate its running value at every turn, as the
\* code does, instead of once when the loop is over
Known(x) == x = x

\* sum += klines[i].Close for the candles i..n
RECURSIVE sumClosesFrom(_, _, _, _)
sumClosesFrom(ks, i, n, sum) ==
    IF Known(sum) /\ i > n THEN sum
    ELSE sumClosesFrom(ks, i + 1, n, FAdd(sum, ks[i].Close))

\* sum of the closes of the first n candles, added from left to right
sumCloses(ks, n) == sumClosesFrom(ks, 1, n, FZero)

\* ema = (close - ema) * multiplier + ema, for the candles from index i on
RECURSIVE emaFrom(_, _, _, _, _)
emaFrom(fma, ks, multiplier, i, ema) ==
    IF Known(ema) /\ i > Len(ks) THEN ema
    ELSE emaFrom(fma, ks, multiplier, i + 1,
                 MulThenAdd(fma, ema, FSub(ks[i].Close, ema), multiplier))

\* an EMA that needs one candle more than its period
calculateEMA_strict(fma, ks, period) ==
    IF Len(ks) <= period THEN FZero
    ELSE emaFrom(fma, ks, FDiv(FromInt(2), FromInt(period + 1)), period + 1,
                 FDiv(sumCloses(ks, period), FromInt(period)))

calculateEMA(fma, ks, period) ==
    IF Len(ks) < period THEN FZero
    ELSE emaFrom(fma, ks, FDiv(FromInt(2), FromInt(period + 1)), period + 1,
                 FDiv(sumCloses(ks, period), FromInt(period)))

calculateMACD(fma, ks) ==
    IF Len(ks) < 26 THEN FZero
    ELSE FSub(calculateEMA(fma, ks, 12), calculateEMA(fma, ks, 26))

\* close of candle i minus close of the candle before it
changeAt(ks, i) == FSub(ks[i].Close, ks[i - 1].Close)

\* gains += change for the rising candles among i..n
RECURSIVE gainsFrom(_, _, _, _)
gainsFrom(ks, i, n, gains) ==
    IF Known(gains) /\ i > n THEN gains
    ELSE gainsFrom(ks, i + 1, n,
                   IF FGt(changeAt(ks, i), FZero) THEN FAdd(gains, changeAt(ks, i))
                   ELSE gains)

\* losses += -change for the other candles among i..n
RECURSIVE lossesFrom(_, _, _, _)
lossesFrom(ks, i, n, losses) ==
    IF Known(losses) /\ i > n THEN losses
    ELSE lossesFrom(ks, i + 1, n,
                    IF FGt(changeAt(ks, i), FZero) THEN losses
                    ELSE FAdd(losses, FNeg(changeAt(ks, i))))

\* gains and losses summed over the changes of the candles 2..n
gainsTo(ks, n) == gainsFrom(ks, 2, n, FZero)

lossesTo(ks, n) == lossesFrom(ks, 2, n, FZero)

\* (avg * (period - 1) + x) / period
wilder(fma, avg, x, period) ==
    FDiv(MulThenAdd(fma, x, avg, FromInt(period - 1)), FromInt(period))

\* (avg * (period - 1)) / period
decay(avg, period) == FDiv(FMul(avg, FromInt(period - 1)), FromInt(period))

\* the smoothed average gain after the candles i..len(klines)
RECURSIVE avgGainFrom(_, _, _, _, _)
avgGainFrom(fma, ks, period, i, avgGain) ==
    IF Known(avgGain) /\ i > Len(ks) THEN avgGain
    ELSE avgGainFrom(fma, ks, period, i + 1,
                     IF FGt(changeAt(ks, i), FZero)
                     THEN wilder(fma, avgGain, changeAt(ks, i), period)
                     ELSE decay(avgGain, period))

RECURSIVE avgLossFrom(_, _, _, _, _)
avgLossFrom(fma, ks, period, i, avgLoss) ==
    IF Known(avgLoss) /\ i > Len(ks) THEN avgLoss
    ELSE avgLossFrom(fma, ks, period, i + 1,
                     IF FGt(changeAt(ks, i), FZero)
                     THEN decay(avgLoss, period)
                     ELSE wilder(fma, avgLoss, FNeg(changeAt(ks, i)), period))

\* 100 when avgLoss is 0, else 100 - 100 / (1 + avgGain / avgLoss)
rsiOf(avgGain, avgLoss) ==
    IF avgLoss = FZero THEN FromInt(100)
    ELSE FSub(FromInt(100), FDiv(FromInt(100), FAdd(FromInt(1), FDiv(avgGain, avgLoss))))

calculateRSI(fma, ks, period) ==
    IF Len(ks) <= period THEN FZero
    ELSE rsiOf(avgGainFrom(fma, ks, period, period + 2,
                           FDiv(gainsTo(ks, period + 1), FromInt(period))),
               avgLossFrom(fma, ks, period, period + 2,
                           FDiv(lossesTo(ks, period + 1), FromInt(period))))

\* the true range of candle i: max(high - low, |high - prevClose|, |low - prevClose|)
trueRange(ks, i) ==
    FMax(FSub(ks[i].High, ks[i].Low),
         FMax(FAbs(FSub(ks[i].High, ks[i - 1].Close)),
              FAbs(FSub(ks[i].Low, ks[i - 1].Close))))

\* sum += trs[i] for the candles i..n
RECURSIVE sumRangesFrom(_, _, _, _)
sumRangesFrom(ks, i, n, sum) ==
    IF Known(sum) /\ i > n THEN sum
    ELSE sumRangesFrom(ks, i + 1, n, FAdd(sum, trueRange(ks, i)))

\* sum of the true ranges of the candles 2..n
sumRanges(ks, n) == sumRangesFrom(ks, 2, n, FZero)

RECURSIVE atrFrom(_, _, _, _, _)
atrFrom(fma, ks, period, i, atr) ==
    IF Known(atr) /\ i > Len(ks) THEN atr
    ELSE atrFrom(fma, ks, period, i + 1, wilder(fma, atr, trueRange(ks, i), period))

calculateATR(fma, ks, period) ==
    IF Len(ks) <= period THEN FZero
    ELSE atrFrom(fma, ks, period, period + 2,
                 FDiv(sumRanges(ks, period + 1), FromInt(period)))

\* what an indicator returned
Indicator(kind, period, value) == [kind |-> kind, period |-> period, value |-> value]

(***************************************************************************)
(* Specification of the indicators applied to one candle sequence          *)
(***************************************************************************)
MaxCandles == 27

\* the close of candle i of a flat, a rising and a falling market
CloseAt(shape, i) ==
    IF shape = "flat" THEN 5
    ELSE IF shape = "rising" THEN 2 + (i % 7)
    ELSE 9 - (i % 7)

\* candles that open where they close, one above their low and one below
\* their high
UnitCandle(c) == Kline(FromInt(c), FromInt(c + 1), FromInt(c - 1), FromInt(c), FromInt(1))

IndicatorKlines ==
    {[i \in 1..n |-> UnitCandle(CloseAt(shape, i))] :
        n \in 0..MaxCandles, shape \in {"flat", "rising", "falling"}}

\* the periods market.Get and its helpers ask for
EMAPeriods == {12, 20, 26}

RSIPeriods == {7, 14}

ATRPeriods == {3, 14}

InitIndicators ==
    /\ DecisionUnused
    /\ fused \in BOOLEAN
    /\ pc = "compute"
    /\ klines \in IndicatorKlines
    /\ analysis = NoAnalysis
    /\ trader = NoTrader

CalculateEMA ==
    /\ pc = "compute"
    /\ \E period \in EMAPeriods :
          analysis' = Indicator("EMA", period, calculateEMA(fused, klines, period))
    /\ pc' = "computed"
    /\ UNCHANGED <<decisionVars, fused, klines, trader>>

CalculateMACD ==
    /\ pc = "compute"
    /\ analysis' = Indicator("MACD", 26, calculateMACD(fused, klines))
    /\ pc' = "computed"
    /\ UNCHANGED <<decisionVars, fused, klines, trader>>

CalculateRSI ==
    /\ pc = "compute"
    /\ \E period \in RSIPeriods :
          analysis' = Indicator("RSI", period, calculateRSI(fused, klines, period))
    /\ pc' = "computed"
    /\ UNCHANGED <<decisionVars, fused, klines, trader>>

CalculateATR ==
    /\ pc = "compute"
    /\ \E period \in ATRPeriods :
          analysis' = Indicator("ATR", period, calculateATR(fused, klines, period))
    /\ pc' = "computed"
    /\ UNCHANGED <<decisionVars, fused, klines, trader>>

NextIndicators == CalculateEMA \/ CalculateMACD \/ CalculateRSI \/ CalculateATR

SpecIndicators == InitIndicators /\ [][NextIndicators]_vars

(***************************************************************************)
(* Fibonacci retracement                                                   *)
(***************************************************************************)
\* the candles CalculateFibonacciAnalysis asks for, the candles a swing is
\* looked for in, and the value the search for the swing low starts from
MinSwingKlines == 30

RecentKlines == 20

SwingLowStart == 999999999

\* the highest high of the candles i.. that is above swingHigh
RECURSIVE swingHighFrom(_, _, _)
swingHighFrom(ks, i, swingHigh) ==
    IF Known(swingHigh) /\ i > Len(ks) THEN swingHigh
    ELSE swingHighFrom(ks, i + 1,
                       IF FGt(ks[i].High, swingHigh) THEN ks[i].High ELSE swingHigh)

\* the lowest low of the candles i.. that is below swingLow
RECURSIVE swingLowFrom(_, _, _)
swingLowFrom(ks, i, swingLow) ==
    IF Known(swingLow) /\ i > Len(ks) THEN swingLow
    ELSE swingLowFrom(ks, i + 1,
                      IF FLt(ks[i].Low, swingLow) THEN ks[i].Low ELSE swingLow)

SwingPoints(high, low) == [panic |-> FALSE, high |-> high, low |-> low]

\* the swing searched for in every candle instead of the recent ones
identifySwingPoints_all(ks) ==
    IF Len(ks) < 10 THEN SwingPoints(FZero, FZero)
    ELSE IF Len(ks) < RecentKlines THEN [panic |-> TRUE, high |-> FZero, low |-> FZero]
    ELSE SwingPoints(swingHighFrom(ks, 1, FZero),
                     swingLowFrom(ks, 1, FromInt(SwingLowStart)))

\* klines[len(klines)-20:] is out of range for 10 to 19 candles
identifySwingPoints(ks) ==
    IF Len(ks) < 10 THEN SwingPoints(FZero, FZero)
    ELSE IF Len(ks) < RecentKlines THEN [panic |-> TRUE, high |-> FZero, low |-> FZero]
    ELSE SwingPoints(swingHighFrom(LastN(ks, RecentKlines), 1, FZero),
                     swingLowFrom(LastN(ks, RecentKlines), 1, FromInt(SwingLowStart)))

\* the retracement ratios by the names of their levels
fibRatios ==
    [level \in {"23.6", "38.2", "50.0", "61.8", "70.5", "78.6"} |->
        CASE level = "23.6" -> FConst(236, 1000)
          [] level = "38.2" -> FConst(382, 1000)
          [] level = "50.0" -> FConst(500, 1000)
          [] level = "61.8" -> FConst(618, 1000)
          [] level = "70.5" -> FConst(705, 1000)
          [] level = "78.6" -> FConst(786, 1000)]

\* levels[level] = swingHigh - (diff * ratio); no level unless the swing high
\* is above the swing low
calculateFibonacciLevels(fma, swingHigh, swingLow) ==
    IF FLe(swingHigh, swingLow) THEN << >>
    ELSE [level \in DOMAIN fibRatios |->
            MulThenAdd(fma, swingHigh, FNeg(FSub(swingHigh, swingLow)), fibRatios[level])]

\* the labels of analyzePricePosition: "数据不足", "在OTE区间内",
\* "在OTE区间上方", "在OTE区间下方", "在斐波那契回撤区间内", "在强势区域",
\* "在弱势区域" and "在标准区域"
positionAgainst(currentPrice, levels, oteLower, oteUpper) ==
    IF oteLower = FZero \/ oteUpper = FZero THEN "insufficient_data"
    ELSE IF FGe(currentPrice, oteLower) /\ FLe(currentPrice, oteUpper) THEN "inside_ote"
    ELSE IF FGt(currentPrice, oteUpper) THEN "above_ote"
    ELSE IF FLt(currentPrice, oteLower) THEN "below_ote"
    ELSE IF FGe(currentPrice, levels["38.2"]) /\ FLe(currentPrice, levels["61.8"])
         THEN "inside_retracement"
    ELSE IF FGt(currentPrice, levels["23.6"]) THEN "strong_zone"
    ELSE IF FLt(currentPrice, levels["78.6"]) THEN "weak_zone"
    ELSE "standard_zone"

\* oteLower := levels["61.8"], oteUpper := levels["70.5"]
analyzePricePosition(currentPrice, levels) ==
    IF DOMAIN levels = {} THEN "insufficient_data"
    ELSE positionAgainst(currentPrice, levels, levels["61.8"], levels["70.5"])

FibonacciData(swing, levels, currentPrice) ==
    [SwingHigh |-> swing.high, SwingLow |-> swing.low, Levels |-> levels,
     CurrentPriceVsFib |-> analyzePricePosition(currentPrice, levels)]

Analysis(kind, err, data) == [kind |-> kind, err |-> err, data |-> data]

fibonacciFor(fma, swing, currentPrice) ==
    Analysis("Fibonacci", "nil",
             FibonacciData(swing, calculateFibonacciLevels(fma, swing.high, swing.low),
                           currentPrice))

\* what CalculateFibonacciAnalysis returns for the 4-hour candles it fetched
fibonacciAnalysis(fma, fetched, ks) ==
    IF ~fetched THEN Analysis("Fibonacci", "fetch_failed", "nil")
    ELSE IF Len(ks) < MinSwingKlines THEN Analysis("Fibonacci", "insufficient_klines", "nil")
    ELSE fibonacciFor(fma, identifySwingPoints(ks), ks[Len(ks)].Close)

(***************************************************************************)
(* Specification of the Fibonacci analysis of one candle sequence          *)
(***************************************************************************)
MaxSwingKlines == 31

\* swing highs and lows: a tenth of the 110,000 / 90,000 of the tests, its
\* double, two neighbouring floats, two wide swings (the difference of the
\* second is no float) and a flat market
Swings ==
    {<<110, 90>>, <<220, 180>>, <<129, 128>>, <<200, 100>>, <<300, 17>>, <<100, 100>>}

Middle(swing) == (swing[1] + swing[2]) \div 2

\* how far the candles before the recent ones reach beyond the swing
Beyond == {0, 16}

\* candle i of n: the first of the recent candles makes the high, the last
\* but one the low, the last one closes at the current price; the candles
\* before them reach beyond the swing by `beyond`
SwingCandle(swing, beyond, price, n, i) ==
    IF i = n
    THEN Kline(FromInt(Middle(swing)),
               FromInt(IF price > Middle(swing) THEN price ELSE Middle(swing)),
               FromInt(IF price < Middle(swing) THEN price ELSE Middle(swing)),
               FromInt(price), FromInt(1))
    ELSE IF i = n - 1
    THEN Kline(FromInt(Middle(swing)), FromInt(Middle(swing)), FromInt(swing[2]),
               FromInt(Middle(swing)), FromInt(1))
    ELSE IF i = n - RecentKlines + 1
    THEN Kline(FromInt(Middle(swing)), FromInt(swing[1]), FromInt(Middle(swing)),
               FromInt(Middle(swing)), FromInt(1))
    ELSE IF i <= n - RecentKlines
    THEN Kline(FromInt(Middle(swing)), FromInt(swing[1] + beyond),
               FromInt(swing[2] - beyond), FromInt(Middle(swing)), FromInt(1))
    ELSE Kline(FromInt(Middle(swing)), FromInt(Middle(swing)), FromInt(Middle(swing)),
               FromInt(Middle(swing)), FromInt(1))

SwingKlines ==
    {[i \in 1..n |-> SwingCandle(swing, beyond, price, n, i)] :
        <<swing, beyond, price, n>> \in
            {x \in Swings \X Beyond \X (90..220) \X ((MinSwingKlines - 1)..MaxSwingKlines) :
                x[1][2] <= x[3] /\ x[3] <= x[1][1]}}

InitFibonacci ==
    /\ DecisionUnused
    /\ fused \in BOOLEAN
    /\ pc = "compute"
    /\ klines \in SwingKlines
    /\ analysis = NoAnalysis
    /\ trader = NoTrader

CalculateFibonacciAnalysis ==
    /\ pc = "compute"
    /\ \E fetched \in BOOLEAN : analysis' = fibonacciAnalysis(fused, fetched, klines)
    /\ pc' = "computed"
    /\ UNCHANGED <<decisionVars, fused, klines, trader>>

NextFibonacci == CalculateFibonacciAnalysis

SpecFibonacci == InitFibonacci /\ [][NextFibonacci]_vars

(***************************************************************************)
(* Wyckoff phase, patterns, volume pattern and price action                *)
(***************************************************************************)
\* the candles IdentifyWyckoffSignals asks for
MinWyckoffKlines == 20

\* (a - b) / b * 100
percentOf(a, b) == FMul(FDiv(a, b), FromInt(100))

percentChange(a, b) == percentOf(FSub(a, b), b)

\* sum += tr / prevClose * 100 for the candles i..
RECURSIVE volatilityFrom(_, _, _, _)
volatilityFrom(fma, ks, i, sum) ==
    IF Known(sum) /\ i > Len(ks) THEN sum
    ELSE volatilityFrom(fma, ks, i + 1,
                        MulThenAdd(fma, sum, FDiv(trueRange(ks, i), ks[i - 1].Close),
                                   FromInt(100)))

calculateVolatility(fma, ks) ==
    IF Len(ks) < 2 THEN FZero
    ELSE FDiv(volatilityFrom(fma, ks, 2, FZero), FromInt(Len(ks) - 1))

\* avgChange += change for the changes of the candles i..
RECURSIVE changesFrom(_, _, _)
changesFrom(ks, i, avgChange) ==
    IF Known(avgChange) /\ i > Len(ks) THEN avgChange
    ELSE changesFrom(ks, i + 1,
                     FAdd(avgChange, percentChange(ks[i].Close, ks[i - 1].Close)))

\* the volumes of the candles i.. added to sum
RECURSIVE volumesFrom(_, _, _)
volumesFrom(ks, i, sum) ==
    IF Known(sum) /\ i > Len(ks) THEN sum
    ELSE volumesFrom(ks, i + 1, FAdd(sum, ks[i].Volume))

\* accumulation low in the range, distribution high in it
phaseAt(positionInRange, avgVolume) ==
    IF FLt(positionInRange, FConst(3, 10)) /\ FGt(avgVolume, FZero) THEN "accumulation"
    ELSE IF FGt(positionInRange, FConst(7, 10)) /\ FGt(avgVolume, FZero) THEN "distribution"
    ELSE "consolidation"

phaseInRange(currentPrice, high, low, avgVolume) ==
    IF FLe(FSub(high, low), FZero) THEN "consolidation"
    ELSE phaseAt(FDiv(FSub(currentPrice, low), FSub(high, low)), avgVolume)

\* high and low are searched for as the swing points are, from 0.0 and
\* 999999999.0
phaseOf(recent, avgChange, volatility) ==
    IF FLt(volatility, FromInt(2)) /\ FLt(FAbs(avgChange), FromInt(1)) THEN "consolidation"
    ELSE IF FGt(avgChange, FromInt(2)) THEN "uptrend"
    ELSE IF FLt(avgChange, FromInt(-2)) THEN "downtrend"
    ELSE phaseInRange(recent[Len(recent)].Close,
                      swingHighFrom(recent, 1, FZero),
                      swingLowFrom(recent, 1, FromInt(SwingLowStart)),
                      FDiv(volumesFrom(recent, 1, FZero), FromInt(Len(recent))))

phaseOfRecent(fma, recent) ==
    phaseOf(recent, FDiv(changesFrom(recent, 2, FZero), FromInt(Len(recent) - 1)),
            calculateVolatility(fma, recent))

identifyMarketPhase(fma, ks) ==
    IF Len(ks) < 10 THEN "consolidation" ELSE phaseOfRecent(fma, LastN(ks, 10))

\* the candle before the last has a long lower shadow and the last closes
\* above it
isSpringPattern(ks) ==
    /\ Len(ks) >= 3
    /\ FGt(FSub(ks[Len(ks) - 1].Close, ks[Len(ks) - 1].Low),
           FMul(FAbs(FSub(ks[Len(ks) - 1].Close, ks[Len(ks) - 1].Open)), FromInt(2)))
    /\ FGt(ks[Len(ks)].Close, ks[Len(ks) - 1].Close)

isUTADPattern(ks) ==
    /\ Len(ks) >= 3
    /\ FGt(FSub(ks[Len(ks) - 1].High, ks[Len(ks) - 1].Close),
           FMul(FAbs(FSub(ks[Len(ks) - 1].Close, ks[Len(ks) - 1].Open)), FromInt(2)))
    /\ FLt(ks[Len(ks)].Close, ks[Len(ks) - 1].Close)

isSOSPattern(ks) ==
    /\ Len(ks) >= 2
    /\ FGt(ks[Len(ks)].Close, ks[Len(ks)].Open)
    /\ FGt(FSub(ks[Len(ks)].Close, ks[Len(ks)].Open),
           FMul(FSub(ks[Len(ks)].High, ks[Len(ks)].Low), FConst(6, 10)))

isSOWPattern(ks) ==
    /\ Len(ks) >= 2
    /\ FLt(ks[Len(ks)].Close, ks[Len(ks)].Open)
    /\ FGt(FSub(ks[Len(ks)].Open, ks[Len(ks)].Close),
           FMul(FSub(ks[Len(ks)].High, ks[Len(ks)].Low), FConst(6, 10)))

\* a climax is looked for in three candles or more
isClimaxPattern(ks) ==
    /\ Len(ks) >= 3
    /\ FGt(percentOf(FSub(ks[Len(ks)].High, ks[Len(ks)].Low), ks[Len(ks)].Open),
           FromInt(5))

isTestPattern(ks) ==
    /\ Len(ks) >= 2
    /\ FGt(FSub(ks[Len(ks)].High, ks[Len(ks)].Low), FZero)
    /\ FLt(FDiv(FAbs(FSub(ks[Len(ks)].Close, ks[Len(ks)].Open)),
                FSub(ks[Len(ks)].High, ks[Len(ks)].Low)),
           FConst(3, 10))

\* previousHigh starts from 0.0 and covers every candle but the last
isBreakoutPattern(ks) ==
    /\ Len(ks) >= 3
    /\ FGt(ks[Len(ks)].Close, swingHighFrom(Prefix(ks, Len(ks) - 1), 1, FZero))

\* previousLow starts from the first candle's low
isBreakdownPattern(ks) ==
    /\ Len(ks) >= 3
    /\ FLt(ks[Len(ks)].Close, swingLowFrom(Prefix(ks, Len(ks) - 1), 2, ks[1].Low))

\* signals = append(signals, name) when the pattern is there
appended(found, name) == IF found THEN <<name>> ELSE << >>

signalsOf(recent) ==
    appended(isSpringPattern(recent), "Spring")
        \o appended(isUTADPattern(recent), "UTAD")
        \o appended(isSOSPattern(recent), "SOS")
        \o appended(isSOWPattern(recent), "SOW")
        \o appended(isClimaxPattern(recent), "CLIMAX")
        \o appended(isTestPattern(recent), "TEST")
        \o appended(isBreakoutPattern(recent), "BREAKOUT")
        \o appended(isBreakdownPattern(recent), "BREAKDOWN")

\* the first pattern found only
signalsOf_first(recent) ==
    IF isSpringPattern(recent) THEN <<"Spring">>
    ELSE IF isUTADPattern(recent) THEN <<"UTAD">>
    ELSE IF isSOSPattern(recent) THEN <<"SOS">>
    ELSE IF isSOWPattern(recent) THEN <<"SOW">>
    ELSE IF isClimaxPattern(recent) THEN <<"CLIMAX">>
    ELSE IF isTestPattern(recent) THEN <<"TEST">>
    ELSE IF isBreakoutPattern(recent) THEN <<"BREAKOUT">>
    ELSE IF isBreakdownPattern(recent) THEN <<"BREAKDOWN">>
    ELSE << >>

detectWyckoffSignals_first(ks) ==
    IF Len(ks) < 5 THEN << >> ELSE signalsOf_first(LastN(ks, 5))

detectWyckoffSignals(ks) ==
    IF Len(ks) < 5 THEN << >> ELSE signalsOf(LastN(ks, 5))

\* klines[start : len(klines)-5], start being len(klines)-20 or 0
historicalKlines(ks) ==
    SubSeq(ks, (IF Len(ks) - 20 < 0 THEN 0 ELSE Len(ks) - 20) + 1, Len(ks) - 5)

averageVolume(ks) ==
    IF Len(ks) > 0 THEN FDiv(volumesFrom(ks, 1, FZero), FromInt(Len(ks))) ELSE FZero

\* a price change above 2% on a volume within 1% of the recent average; the
\* volume change of an average volume of 0 is no number and below nothing
isDivergence(priceChange, currentVolume, avgVolume) ==
    /\ FGt(FAbs(priceChange), FromInt(2))
    /\ avgVolume # FZero
    /\ FLt(FAbs(percentChange(currentVolume, avgVolume)), FromInt(1))

divergenceOf(recent, avgVolume) ==
    IF isDivergence(percentChange(recent[Len(recent)].Close, recent[1].Open),
                    recent[Len(recent)].Volume, avgVolume)
    THEN "divergence"
    ELSE "normal_volume"

volumePatternOf(recent, currentVolume, historicalAvgVolume) ==
    IF FGt(historicalAvgVolume, FZero)
          /\ FGt(FDiv(currentVolume, historicalAvgVolume), FromInt(2))
    THEN "high_volume"
    ELSE IF FGt(historicalAvgVolume, FZero)
          /\ FLt(FDiv(currentVolume, historicalAvgVolume), FConst(1, 2))
    THEN "low_volume"
    ELSE divergenceOf(recent, averageVolume(recent))

analyzeVolumePattern(ks) ==
    IF Len(ks) < 5 THEN "normal_volume"
    ELSE volumePatternOf(LastN(ks, 5), ks[Len(ks)].Volume, averageVolume(historicalKlines(ks)))

priceActionOf(totalChange, volatility) ==
    IF FGt(FAbs(totalChange), FromInt(3))
    THEN (IF FGt(totalChange, FZero) THEN "breakout" ELSE "breakdown")
    ELSE IF FGt(volatility, FromInt(2)) THEN "false_move"
    ELSE IF FLt(volatility, FromInt(1)) THEN "consolidation"
    ELSE "trending"

priceActionOfRecent(fma, recent) ==
    priceActionOf(percentChange(recent[Len(recent)].Close, recent[1].Open),
                  calculateVolatility(fma, recent))

identifyPriceAction(fma, ks) ==
    IF Len(ks) < 3 THEN "consolidation" ELSE priceActionOfRecent(fma, LastN(ks, 3))

WyckoffSignalData(phase, signals, volumePattern, priceAction) ==
    [Phase |-> phase, SignalsPresent |-> signals, VolumePattern |-> volumePattern,
     PriceAction |-> priceAction]

\* what IdentifyWyckoffSignals returns for the 4-hour candles it fetched
wyckoffAnalysis(fma, fetched, ks) ==
    IF ~fetched THEN Analysis("Wyckoff", "fetch_failed", "nil")
    ELSE IF Len(ks) < MinWyckoffKlines THEN Analysis("Wyckoff", "insufficient_klines", "nil")
    ELSE Analysis("Wyckoff", "nil",
                  WyckoffSignalData(identifyMarketPhase(fma, ks), detectWyckoffSignals(ks),
                                    analyzeVolumePattern(ks), identifyPriceAction(fma, ks)))

\* the detectors applied one by one to the same candles
patternsOf(ks) ==
    [Spring |-> isSpringPattern(ks), UTAD |-> isUTADPattern(ks), SOS |-> isSOSPattern(ks),
     SOW |-> isSOWPattern(ks), CLIMAX |-> isClimaxPattern(ks), TEST |-> isTestPattern(ks),
     BREAKOUT |-> isBreakoutPattern(ks), BREAKDOWN |-> isBreakdownPattern(ks)]

(***************************************************************************)
(* Specification of the Wyckoff analysis of one candle sequence            *)
(***************************************************************************)
MaxWyckoffKlines == 21

\* the close of candle i of a flat, a rising and a falling market
MarketAt(trend, i) ==
    IF trend = "flat" THEN 100
    ELSE IF trend = "rising" THEN 64 + 2 * i
    ELSE 110 - 2 * i

\* open, high, low and close of a candle as distances from the market
CandleShapes ==
    [small |-> <<0, 1, -1, 0>>, rise |-> <<0, 2, 0, 2>>, bull |-> <<0, 8, 0, 8>>,
     bear |-> <<0, 0, -8, -8>>, hammer |-> <<0, 1, -6, 1>>, star |-> <<0, 6, -1, -1>>,
     doji |-> <<0, 4, -4, 0>>, still |-> <<0, 0, 0, 0>>]

ShapedCandle(at, shape, volume) ==
    Kline(FromInt(at + CandleShapes[shape][1]), FromInt(at + CandleShapes[shape][2]),
          FromInt(at + CandleShapes[shape][3]), FromInt(at + CandleShapes[shape][4]),
          FromInt(volume))

\* the volume of the earlier candles and of the last one
Volumes == {<<0, 0>>, <<0, 4>>, <<4, 1>>, <<4, 4>>, <<4, 12>>}

\* small candles along the market, then a candle of shape `before` and a
\* last candle of shape `last`
WyckoffCandle(trend, before, last, volumes, n, i) ==
    ShapedCandle(MarketAt(trend, i),
                 IF i = n THEN last ELSE IF i = n - 1 THEN before ELSE "small",
                 IF i = n THEN volumes[2] ELSE volumes[1])

WyckoffKlines ==
    {[i \in 1..n |-> WyckoffCandle(trend, before, last, volumes, n, i)] :
        <<trend, before, last, volumes, n>> \in
            {"flat", "rising", "falling"} \X {"still", "hammer", "star"}
                \X (DOMAIN CandleShapes) \X Volumes
                \X ((MinWyckoffKlines - 1)..MaxWyckoffKlines)}

InitWyckoff ==
    /\ DecisionUnused
    /\ fused \in BOOLEAN
    /\ pc = "compute"
    /\ klines \in WyckoffKlines
    /\ analysis = NoAnalysis
    /\ trader = NoTrader

IdentifyWyckoffSignals ==
    /\ pc = "compute"
    /\ \E fetched \in BOOLEAN : analysis' = wyckoffAnalysis(fused, fetched, klines)
    /\ pc' = "computed"
    /\ UNCHANGED <<decisionVars, fused, klines, trader>>

\* each detector called with the last `window` candles, as the tests do
DetectPatterns ==
    /\ pc = "compute"
    /\ \E window \in 2..5 :
          analysis' = Analysis("Patterns", "nil", patternsOf(LastN(klines, window)))
    /\ pc' = "computed"
    /\ UNCHANGED <<decisionVars, fused, klines, trader>>

NextWyckoff == IdentifyWyckoffSignals \/ DetectPatterns

SpecWyckoff == InitWyckoff /\ [][NextWyckoff]_vars

(***************************************************************************)
(* Properties                                                              *)
(***************************************************************************)
\* the decision under validation, and whether it has been validated
Validated == pc = "validated"

TheDecision == Decision(wire)

Accepted == verdict = "nil"

\* the cap the configuration gives the symbol of the decision under validation
CapOfSymbol ==
    IF StrField(wire, "symbol") \in {"BTCUSDT", "ETHUSDT"}
    THEN ctx.BTCETHLeverage
    ELSE ctx.AltcoinLeverage

WireIsOpen == StrField(wire, "action") \in {"open_long", "open_short"}

\* the decisions the returned reply decodes to, and the invalid ones among them
ReplyDecodes == extractDecisions(aiResponse).err = NoError

ReplyDecisions == extractDecisions(aiResponse).decisions

InvalidIndexes ==
    {i \in 1..Len(ReplyDecisions) :
        validateDecision(fused, ReplyDecisions[i], ctx.TotalEquity,
                         ctx.BTCETHLeverage, ctx.AltcoinLeverage) # "nil"}

\* C1: when a decoded decision list holds an invalid decision, the cycle
\* returns a validation error naming the 1-based index of the first invalid
\* decision, together with a FullDecision holding the complete decoded list,
\* unchanged and in order.
C1_FailFast ==
    (pc = "returned" /\ result.err # CallError /\ ReplyDecodes /\ InvalidIndexes # {})
        => /\ result.err.kind = "validate"
           /\ result.err.index \in InvalidIndexes
           /\ \A i \in InvalidIndexes : result.err.index <= i
           /\ ~result.isNil
           /\ result.decision.Decisions = ReplyDecisions

\* a list of three decisions, the second and the third invalid, was rejected
C1_Witness ==
    /\ pc = "returned"
    /\ ReplyDecodes
    /\ Len(ReplyDecisions) = 3
    /\ InvalidIndexes = {2, 3}
    /\ result.err.kind = "validate"
    /\ result.err.index = 2
    /\ result.decision.Decisions = ReplyDecisions

\* C2: an open decision fails the leverage rule exactly when its leverage is
\* outside 1..cap, cap being the BTC/ETH leverage for BTCUSDT and ETHUSDT and
\* the altcoin leverage for every other symbol; so an accepted open decision
\* has 1 <= leverage <= cap.
C2_LeverageInRange ==
    (Validated /\ WireIsOpen)
        => /\ (verdict = "leverage")
                <=> (TheDecision.Leverage < 1 \/ TheDecision.Leverage > CapOfSymbol)
           /\ Accepted => (1 <= TheDecision.Leverage /\ TheDecision.Leverage <= CapOfSymbol)

\* an ETHUSDT open at the BTC/ETH cap plus one, which the altcoin cap would
\* have allowed, was rejected for its leverage
C2_Witness ==
    /\ Validated
    /\ WireIsOpen
    /\ StrField(wire, "symbol") = "ETHUSDT"
    /\ TheDecision.Leverage = ctx.BTCETHLeverage + 1
    /\ TheDecision.Leverage <= ctx.AltcoinLeverage
    /\ verdict = "leverage"

\* C3: an accepted open decision has stop-loss > 0 and take-profit > 0, with
\* stop-loss < take-profit for open_long and stop-loss > take-profit for
\* open_short; equal stop-loss and take-profit are never accepted.
C3_StopTakeOrder ==
    (Validated /\ WireIsOpen /\ Accepted)
        => /\ FGt(TheDecision.StopLoss, FZero)
           /\ FGt(TheDecision.TakeProfit, FZero)
           /\ TheDecision.StopLoss # TheDecision.TakeProfit
           /\ (TheDecision.Action = "open_long")
                => FLt(TheDecision.StopLoss, TheDecision.TakeProfit)
           /\ (TheDecision.Action = "open_short")
                => FGt(TheDecision.StopLoss, TheDecision.TakeProfit)

\* an open_long with a valid leverage and size and a zero stop-loss was rejected
C3_Witness ==
    /\ Validated
    /\ TheDecision.Action = "open_long"
    /\ TheDecision.StopLoss = FZero
    /\ FGt(TheDecision.TakeProfit, FZero)
    /\ verdict = "stop_take_positive"

\* C4: an open decision whose reward/risk ratio, measured from the synthetic
\* entry price, is below 3 is rejected, also when its leverage, size and
\* stop-loss/take-profit order are valid.
C4_RiskRewardFloor ==
    (Validated /\ WireIsOpen /\ FLt(riskRewardRatio(fused, TheDecision), FromInt(3)))
        => ~Accepted

\* an open_long valid in leverage, size and stop-loss < take-profit was
\* rejected for its ratio
C4_Witness ==
    /\ Validated
    /\ TheDecision.Action = "open_long"
    /\ 1 <= TheDecision.Leverage
    /\ TheDecision.Leverage <= CapOfSymbol
    /\ FGt(TheDecision.StopLoss, FZero)
    /\ FLt(TheDecision.StopLoss, TheDecision.TakeProfit)
    /\ verdict = "risk_reward"

\* C5: an open decision whose risk_usd is not greater than 0 (0 or absent) is
\* rejected.
C5_RiskUSDRequired ==
    (Validated /\ WireIsOpen /\ FLe(TheDecision.RiskUSD, FZero)) => ~Accepted

MinConfidence == 75

\* C6: an open decision that carries a confidence below the threshold the
\* prompt advertises is rejected.
C6_ConfidenceFloor ==
    (Validated /\ WireIsOpen /\ "confidence" \in DOMAIN wire
        /\ TheDecision.Confidence < MinConfidence) => ~Accepted

NewPrice ==
    IF StrField(wire, "action") = "update_stop_loss"
    THEN NumField(wire, "new_stop_loss")
    ELSE NumField(wire, "new_take_profit")

WireIsUpdate == StrField(wire, "action") \in {"update_stop_loss", "update_take_profit"}

SpecActions ==
    {"open_long", "open_short", "close_long", "close_short", "hold", "wait",
     "update_stop_loss", "update_take_profit", "partial_close"}

CodeActions == {"open_long", "open_short", "close_long", "close_short", "hold", "wait"}

BracketPositions == {i \in 1..Len(aiResponse) : aiResponse[i].c = "["}

FirstBracket == CHOOSE i \in BracketPositions : \A j \in BracketPositions : i <= j

\* s without its leading and trailing white space
Trimmed(s) ==
    LET keep == {i \in 1..Len(s) : s[i].c # " "}
    IN IF keep = {} THEN << >>
       ELSE SubSeq(s, CHOOSE i \in keep : \A j \in keep : i <= j,
                      CHOOSE i \in keep : \A j \in keep : j <= i)

\* C10: the chain-of-thought the parser returns is the trimmed text strictly
\* before the first "[" when the reply has one (empty when the reply starts
\* with it), and the entire trimmed text, with a parse failure, when it has none.
C10_CoTBeforeArray ==
    (pc = "returned" /\ ~result.isNil)
        => IF BracketPositions # {}
           THEN result.decision.CoTTrace = Trimmed(SubSeq(aiResponse, 1, FirstBracket - 1))
           ELSE /\ result.decision.CoTTrace = Trimmed(aiResponse)
                /\ result.err.kind = "extract"

\* the number of lexemes c of the reply among the positions from..to
CountOf(c, from, to) == Cardinality({i \in from..to : aiResponse[i].c = c})

\* the bracket depth after position j, counted from the first "["
DepthAfter(j) == CountOf("[", FirstBracket, j) - CountOf("]", FirstBracket, j)

\* the positions after the first "[" where the depth is back to zero
ClosingPositions == {j \in FirstBracket..Len(aiResponse) : DepthAfter(j) = 0}

FirstClosing == CHOOSE j \in ClosingPositions : \A k \in ClosingPositions : j <= k

\* the reply from its first "[" to the first position of depth zero
ArraySpan == SubSeq(aiResponse, FirstBracket, FirstClosing)

\* the decisions of the object lexemes of s, in order
RECURSIVE ObjectsOf(_)
ObjectsOf(s) ==
    IF s = << >> THEN << >>
    ELSE IF Head(s).c = "{" THEN <<Decision(Head(s).o)>> \o ObjectsOf(Tail(s))
    ELSE ObjectsOf(Tail(s))

Parsed == pc = "returned" /\ result.err.kind # "call"

\* C11: for a reply holding "[", the array text the parser decodes runs from
\* the first "[" to the first later "]" where the bracket depth is back to
\* zero (nested arrays resolve to the outermost pair, text after it is left
\* out); when the depth never returns to zero the parser reports an error and
\* returns no decisions.
C11_ArraySpan ==
    (Parsed /\ BracketPositions # {})
        => IF ClosingPositions = {}
           THEN /\ result.err.kind = "extract"
                /\ result.err.rule = "no_array_end"
                /\ result.decision.Decisions = << >>
           ELSE /\ aiResponse[FirstClosing].c = "]"
                /\ result.err.rule \notin {"no_array_start", "no_array_end"}
                /\ result.err.rule = "json"
                      => result.err.content = fixMissingQuotes(ArraySpan)
                /\ result.err.rule # "json"
                      => result.decision.Decisions = ObjectsOf(ArraySpan)

\* a reply with a nested array and text after the outermost pair was parsed
C11_Witness ==
    /\ Parsed
    /\ BracketPositions # {}
    /\ ClosingPositions # {}
    /\ \E i \in (FirstBracket + 1)..(FirstClosing - 1) : aiResponse[i].c = "["
    /\ FirstClosing < Len(aiResponse)
    /\ result.err.content = ArraySpan

\* a reply whose first "[" is never closed was parsed
C11_WitnessUnterminated ==
    /\ Parsed
    /\ BracketPositions # {}
    /\ ClosingPositions = {}
    /\ \E i \in 1..Len(aiResponse) : aiResponse[i].c = "]"

\* the ASCII quote character of a quote character, every other character itself
AsciiOf(c) ==
    IF c \in {"ldquo", "rdquo"} THEN "dquote"
    ELSE IF c \in {"lsquo", "rsquo"} THEN "squote"
    ELSE c

\* the lexeme l written with ASCII quotes
AsciiLexeme(l) ==
    IF l.c = "{" THEN [c |-> "{", o |-> l.o, q |-> <<AsciiOf(l.q[1]), AsciiOf(l.q[2])>>]
    ELSE [c |-> AsciiOf(l.c)]

\* the reply written with ASCII quotes from its first "[" on
AsciiReply ==
    [i \in 1..Len(aiResponse) |->
        IF i < FirstBracket THEN aiResponse[i] ELSE AsciiLexeme(aiResponse[i])]

HasArray == BracketPositions # {} /\ ClosingPositions # {}

StepsOf(step) == {i \in 1..Len(trace) : trace[i] = step}

Prepared3 == <<"fetch", "system_prompt", "user_prompt">>

\* C15: in a cycle the gateway is called at most once and, when the cycle
\* returns, exactly once, after the snapshot and both prompts were built and
\* before any parsing; when the call fails the cycle returns no decision and
\* an error, the call is not repeated, and neither the parser nor the
\* validator has run.
C15_SingleCall ==
    /\ Len(calls) <= 1
    /\ Cardinality(StepsOf("call")) = Len(calls)
    /\ \A i \in StepsOf("call") : i = 4 /\ SubSeq(trace, 1, 3) = Prepared3
    /\ \A i \in StepsOf("parse") \cup StepsOf("validate") :
          \E j \in StepsOf("call") : j < i
    /\ \A i \in 1..Len(calls) : calls[i] = prompts
    /\ pc = "returned" => Len(calls) = 1
    /\ (pc = "returned" /\ result.err = CallError)
          => /\ result.isNil
             /\ trace = Append(Prepared3, "call")
             /\ aiResponse = << >>
    /\ (pc = "returned" /\ result.err # CallError) => StepsOf("parse") # {}

\* a cycle returned after its gateway call failed
C15_Witness ==
    /\ pc = "returned"
    /\ result.err = CallError
    /\ Len(calls) = 1
    /\ args.customPrompt # << >>

\* C16: when the reply holds a JSON decision array whose decisions all pass
\* validation, the cycle returns success with a FullDecision whose Decisions
\* are the records of the array in the same order and number, whose
\* Timestamp is set, and whose SystemPrompt and UserPrompt are the prompts
\* that were sent to the gateway.
C16_SuccessResult ==
    (Parsed /\ ReplyDecodes /\ InvalidIndexes = {})
        => /\ result.err = NoError
           /\ ~result.isNil
           /\ HasArray
           /\ result.decision.Decisions = ObjectsOf(ArraySpan)
           /\ result.decision.Timestamp # 0
           /\ Len(calls) = 1
           /\ result.decision.SystemPrompt = calls[1].system
           /\ result.decision.UserPrompt = calls[1].user
           /\ result.decision.SystemPrompt = systemPromptOf(ctx, args)
           /\ result.decision.UserPrompt = buildUserPrompt(ctx)

\* a reply with two valid decisions was returned by a cycle with a custom prompt
C16_Witness ==
    /\ Parsed
    /\ ReplyDecodes
    /\ InvalidIndexes = {}
    /\ Len(result.decision.Decisions) = 2
    /\ result.decision.Decisions[1].Action = "open_long"
    /\ args.customPrompt # << >>
    /\ "BTCUSDT" \in DOMAIN result.decision.UserPrompt.candidates

\* the three parse failures
ParseFailed == Parsed /\ result.err.kind = "extract"

\* C17: for each of the three parse failures the cycle ends with an error,
\* and the error together with the returned FullDecision carries the
\* complete reply: the reply is the text of the error, the chain-of-thought
\* of the FullDecision, or the one followed by the other.
C17_RawReplyAttached ==
    ParseFailed
        => \/ result.err.content = aiResponse
           \/ result.decision.CoTTrace = aiResponse
           \/ result.decision.CoTTrace \o result.err.content = aiResponse

\* C18: no input of a data source or of the gateway crashes the cycle:
\* fetching the snapshot, building the prompts, parsing and validating
\* complete or end in a returned error.
C18_NoCrash == pc # "panicked"

\* the snapshot has been built on the context
SnapshotBuilt == pc = "fetched"

\* what the sources returned for a symbol of the last fetch
ReplyOf(symbol) == sources.replies[symbol]

GetReturned(symbol) == ~ReplyOf(symbol).err3m /\ ~ReplyOf(symbol).err4h

\* latest open interest times current price, in USD
OIValue(symbol) ==
    (IF ReplyOf(symbol).oiErr THEN 0 ELSE ReplyOf(symbol).oi) * ReplyOf(symbol).close

CandidateOnly == ctx.CandidateCoins \ ctx.Positions

InMarketData(symbol) == symbol \in DOMAIN ctx.MarketDataMap

PassesGate(symbol) ==
    \/ symbol \in ctx.Positions
    \/ ReplyOf(symbol).close <= 0
    \/ OIValue(symbol) >= 15000000

\* every call of market.Get of the last fetch returned, with data or an error
AllGetsReturned ==
    \A symbol \in DOMAIN sources.replies :
        GetReturned(symbol) => ReplyOf(symbol).len3m > 0

\* C14: whatever symbols fail to be fetched, building the snapshot returns
\* success; the failed symbols are absent from the market-data map, every
\* symbol whose fetch succeeded and that passes the liquidity gate is
\* present, and the keys of the map are held or candidate symbols.
C14_PartialCoverage ==
    /\ (pc \in {"fetched", "panicked"} /\ AllGetsReturned) => SnapshotBuilt
    /\ SnapshotBuilt
          => /\ DOMAIN sources.replies = ctx.Positions \cup ctx.CandidateCoins
             /\ \A symbol \in DOMAIN sources.replies :
                   InMarketData(symbol) <=> (GetReturned(symbol) /\ PassesGate(symbol))
             /\ DOMAIN ctx.MarketDataMap \subseteq ctx.Positions \cup ctx.CandidateCoins

\* the fetch of one symbol failed and another symbol is in the map
C14_Witness ==
    /\ SnapshotBuilt
    /\ \E failed \in DOMAIN sources.replies : ~GetReturned(failed) /\ ~InMarketData(failed)
    /\ \E symbol \in DOMAIN sources.replies : InMarketData(symbol)

\* the data market.Get computes from what the sources returned for the symbol
DataOf(symbol) ==
    [CurrentPrice |-> ReplyOf(symbol).close,
     OpenInterest |-> [Latest |-> IF ReplyOf(symbol).oiErr THEN 0 ELSE ReplyOf(symbol).oi],
     MACDValues |-> ctx.MarketDataMap[symbol].MACDValues,
     RSI14Values |-> ctx.MarketDataMap[symbol].RSI14Values]

\* C20: fetching again on the same context carries nothing over: after each
\* fetch the market-data map and the OI-rank map hold only entries fetched
\* during that fetch, so a symbol of an earlier fetch that now fails, is
\* filtered out, or is neither held nor a candidate is absent.
C20_FreshMaps ==
    SnapshotBuilt
        => /\ \A symbol \in DOMAIN ctx.MarketDataMap :
                 /\ symbol \in DOMAIN sources.replies
                 /\ GetReturned(symbol)
                 /\ PassesGate(symbol)
                 /\ ctx.MarketDataMap[symbol] = DataOf(symbol)
           /\ DOMAIN ctx.OITopDataMap =
                 (IF sources.top.err THEN {} ELSE sources.top.symbols)

\* both maps held a symbol before the fetch that they do not hold after it
C20_Witness ==
    /\ SnapshotBuilt
    /\ sources.before.MarketDataMap \ DOMAIN ctx.MarketDataMap # {}
    /\ sources.before.OITopDataMap \ DOMAIN ctx.OITopDataMap # {}
    /\ sources.before.MarketDataMap \ (ctx.Positions \cup ctx.CandidateCoins) # {}

\* the base prompt of the call: the template part and the generated parts
BasePrompt ==
    buildSystemPrompt(ctx.TotalEquity, ctx.BTCETHLeverage, ctx.AltcoinLeverage,
                      args.templateName, args.store)

Overrides == args.overrideBase /\ args.customPrompt # << >>

\* s begins with the text p
StartsWith(s, p) == Len(s) >= Len(p) /\ SubSeq(s, 1, Len(p)) = p

\* C19: the system prompt is the custom prompt alone exactly when override
\* is set and the custom prompt is not empty; otherwise it starts with the
\* base prompt; a custom prompt that is not empty and given without override
\* follows the base prompt and is followed by the disclaimer, which ends the
\* prompt; override with an empty custom prompt gives the base prompt as it is.
C19_SystemPrompt ==
    pc = "built"
        => /\ (prompts.system = args.customPrompt) <=> Overrides
           /\ ~Overrides => StartsWith(prompts.system, BasePrompt)
           /\ (~args.overrideBase /\ args.customPrompt # << >>)
                 => /\ Len(prompts.system) = Len(BasePrompt) + Len(args.customPrompt) + 4
                    /\ SubSeq(prompts.system, Len(BasePrompt) + 3,
                              Len(BasePrompt) + 2 + Len(args.customPrompt))
                          = args.customPrompt
                    /\ prompts.system[Len(prompts.system)] = Seg("disclaimer")
                    /\ prompts.system[Len(BasePrompt) + 2] = Seg("custom_header")
           /\ args.customPrompt = << >> => prompts.system = BasePrompt

\* a custom prompt that is a copy of the base prompt was appended to the base
\* prompt of a template that does not exist
C19_Witness ==
    /\ pc = "built"
    /\ ~args.overrideBase
    /\ args.customPrompt = BasePrompt
    /\ args.templateName = "missing"
    /\ Len(prompts.system) = 2 * Len(BasePrompt) + 4

\* override was set with an empty custom prompt
C19_WitnessEmptyOverride ==
    /\ pc = "built"
    /\ args.overrideBase
    /\ args.customPrompt = << >>
    /\ prompts.system = BasePrompt

\* the decision under validation passed the stop-loss/take-profit rules
PassesOrdering ==
    /\ Validated
    /\ WireIsOpen
    /\ ~stopTakeInvalid(TheDecision)
    /\ ~orderInvalid(TheDecision)

TheEntry == entryPrice(fused, TheDecision)

TheRatio == riskRewardRatio(fused, TheDecision)

WideApart ==
    8 * Abs(NumField(wire, "take_profit") - NumField(wire, "stop_loss"))
        >= NumField(wire, "stop_loss")

IntOf(f) == IF f.e >= 0 THEN f.m * Pow2(f.e) ELSE f.m \div Pow2(0 - f.e)

WireSize == NumField(wire, "position_size_usd")

\* 200 x 1.01 x cap, cap being 10 x equity for BTCUSDT and ETHUSDT and
\* 1.5 x equity for every other symbol
Limit200 ==
    IF StrField(wire, "symbol") \in {"BTCUSDT", "ETHUSDT"}
    THEN 2020 * IntOf(ctx.TotalEquity)
    ELSE 303 * IntOf(ctx.TotalEquity)

\* C28: an open decision with position_size_usd <= 0 is rejected, and so is
\* one with position_size_usd above 1.01 x cap, cap being 10 x equity for
\* BTCUSDT/ETHUSDT and 1.5 x equity for every other symbol; a size exactly at
\* 1.01 x cap is not rejected for its size, and with equity 0 every open
\* decision is rejected.
C28_SizeBounds ==
    (Validated /\ WireIsOpen)
        => /\ (WireSize <= 0) => ~Accepted
           /\ (200 * WireSize > Limit200) => ~Accepted
           /\ (WireSize > 0 /\ 200 * WireSize = Limit200)
                => verdict \notin {"position_size", "position_value"}
           /\ (IntOf(ctx.TotalEquity) = 0) => ~Accepted
           /\ (verdict = "position_value") => 200 * WireSize > Limit200

\* a BTCUSDT open of size 101 on equity 10, exactly at 1.01 x cap, was accepted
C28_Witness ==
    /\ Validated
    /\ WireIsOpen
    /\ StrField(wire, "symbol") = "BTCUSDT"
    /\ IntOf(ctx.TotalEquity) = 10
    /\ WireSize = 101
    /\ Accepted

\* the candle fetch of the symbol succeeded with a positive current price and
\* its open-interest fetch failed
OIFetchFailedAlone(symbol) ==
    /\ GetReturned(symbol)
    /\ ReplyOf(symbol).len3m > 0
    /\ ReplyOf(symbol).close > 0
    /\ ReplyOf(symbol).oiErr

\* C29: after the snapshot is built, a symbol whose candle fetch succeeded
\* with a positive current price and whose open-interest fetch failed is in
\* the market-data map exactly when it is held, and then with an open
\* interest of 0: a candidate that is not held is absent, the defaulted 0
\* being under the 15,000,000 floor.
C29_OIDefaultFiltered ==
    SnapshotBuilt
        => \A symbol \in DOMAIN sources.replies :
              OIFetchFailedAlone(symbol)
                  => /\ InMarketData(symbol) <=> symbol \in ctx.Positions
                     /\ InMarketData(symbol)
                          => ctx.MarketDataMap[symbol].OpenInterest.Latest = 0

\* the open-interest fetch failed for a candidate, which is absent, and for a
\* held symbol, which is present
C29_Witness ==
    /\ SnapshotBuilt
    /\ \E symbol \in CandidateOnly, held \in ctx.Positions :
          /\ OIFetchFailedAlone(symbol)
          /\ OIFetchFailedAlone(held)
          /\ ~InMarketData(symbol)
          /\ InMarketData(held)
          /\ ctx.MarketDataMap[held].OpenInterest.Latest = 0

\* the cycle ended in a parse or validation error
EndedInParseError == Parsed /\ result.err.kind \in {"extract", "validate"}

\* C30: when a cycle ends in a parse or validation error, the FullDecision
\* returned with the error has its CoTTrace set to the chain-of-thought of the
\* reply while its SystemPrompt and UserPrompt are empty and its Timestamp is
\* unset; a returned FullDecision with a prompt or a timestamp comes without
\* an error.
C30_ErrorPathFields ==
    /\ EndedInParseError
          => /\ ~result.isNil
             /\ result.decision.CoTTrace = extractCoTTrace(aiResponse)
             /\ result.decision.SystemPrompt = NoDecision.SystemPrompt
             /\ result.decision.UserPrompt = NoDecision.UserPrompt
             /\ result.decision.Timestamp = 0
    /\ (pc = "returned"
          /\ \/ result.decision.SystemPrompt # NoDecision.SystemPrompt
             \/ result.decision.UserPrompt # NoDecision.UserPrompt
             \/ result.decision.Timestamp # 0)
          => result.err = NoError

\* a cycle ended in a validation error with a chain-of-thought and without
\* prompts, after prompts had been sent to the gateway
C30_Witness ==
    /\ Parsed
    /\ result.err.kind = "validate"
    /\ result.decision.CoTTrace # << >>
    /\ result.decision.SystemPrompt = NoDecision.SystemPrompt
    /\ result.decision.Timestamp = 0
    /\ Len(calls) = 1
    /\ calls[1].system # << >>

\* C26: whatever the interleaving of the start and stop requests of a
\* trader, at most one run loop is active for it, whether it has marked the
\* trader running or not, and a start request that finds a run loop launched
\* is answered "already running" and launches none.
C26_SingleRunLoop ==
    /\ Cardinality(ActiveLoops) <= 1
    /\ Cardinality({l \in DOMAIN trader.loops : trader.loops[l] = "in_cycle"}) <= 1

Computed(kind) == pc = "computed" /\ analysis.kind = kind

\* the closes of the first n candles added up as whole numbers
RECURSIVE CloseSum(_)
CloseSum(n) == IF n = 0 THEN 0 ELSE CloseSum(n - 1) + IntOf(klines[n].Close)

\* C21: EMA(period) of fewer than period candles, MACD of fewer than 26
\* candles, RSI(period) and ATR(period) of period candles or fewer are
\* exactly 0; EMA(period) of exactly period candles is the simple average of
\* their closes.
C21_ShortInput ==
    /\ (Computed("EMA") /\ Len(klines) < analysis.period) => analysis.value = FZero
    /\ (Computed("MACD") /\ Len(klines) < 26) => analysis.value = FZero
    /\ (Computed("RSI") /\ Len(klines) <= analysis.period) => analysis.value = FZero
    /\ (Computed("ATR") /\ Len(klines) <= analysis.period) => analysis.value = FZero
    /\ (Computed("EMA") /\ Len(klines) = analysis.period)
          => analysis.value = RoundS(CloseSum(analysis.period), analysis.period, 0)

\* EMA(20) of exactly 20 candles of a rising market is their average, not 0
C21_Witness ==
    /\ Computed("EMA")
    /\ analysis.period = 20
    /\ Len(klines) = 20
    /\ klines[1].Close # klines[2].Close
    /\ analysis.value = RoundS(CloseSum(20), 20, 0)
    /\ analysis.value # FZero

\* a Fibonacci analysis has been returned, without an error
FibonacciReturned ==
    pc = "computed" /\ analysis.kind = "Fibonacci" /\ analysis.err = "nil"

TheFibonacci == analysis.data

TheRecent == LastN(klines, 20)

\* the levels by rising ratio, and the ratios in thousandths
LevelNames == <<"23.6", "38.2", "50.0", "61.8", "70.5", "78.6">>

Thousandths == <<236, 382, 500, 618, 705, 786>>

\* 256 times the value of a float of the analysis, a whole number
Units(f) == f.m * Pow2(f.e + 8)

\* level is high - (high - low) x thousandths / 1000 up to the rounding of a
\* float of the size of high
NearLevel(level, high, low, thousandths) ==
    Abs(1000 * Units(level) - 256 * (1000 * high - (high - low) * thousandths))
        <= 2000 * high

\* the swing is the highest high and the lowest low of the last 20 candles
RecentSwing ==
    /\ \E i \in 1..20 : TheRecent[i].High = TheFibonacci.SwingHigh
    /\ \A i \in 1..20 : FLe(TheRecent[i].High, TheFibonacci.SwingHigh)
    /\ \E i \in 1..20 : TheRecent[i].Low = TheFibonacci.SwingLow
    /\ \A i \in 1..20 : FGe(TheRecent[i].Low, TheFibonacci.SwingLow)

AllLevelsNear ==
    /\ DOMAIN TheFibonacci.Levels = {LevelNames[k] : k \in 1..6}
    /\ \A k \in 1..6 :
          NearLevel(TheFibonacci.Levels[LevelNames[k]], IntOf(TheFibonacci.SwingHigh),
                    IntOf(TheFibonacci.SwingLow), Thousandths[k])
    /\ (TheFibonacci.SwingHigh = FromInt(110) /\ TheFibonacci.SwingLow = FromInt(90))
          => TheFibonacci.Levels["50.0"] = FromInt(100)

StrictLevels ==
    /\ \A k \in 1..6 :
          /\ FLt(TheFibonacci.SwingLow, TheFibonacci.Levels[LevelNames[k]])
          /\ FLt(TheFibonacci.Levels[LevelNames[k]], TheFibonacci.SwingHigh)
    /\ \A k \in 1..5 :
          FGt(TheFibonacci.Levels[LevelNames[k]], TheFibonacci.Levels[LevelNames[k + 1]])

WideSwing ==
    8 * (IntOf(TheFibonacci.SwingHigh) - IntOf(TheFibonacci.SwingLow))
        >= IntOf(TheFibonacci.SwingHigh)

InBand(price) ==
    /\ FGe(price, TheFibonacci.Levels["70.5"])
    /\ FLe(price, TheFibonacci.Levels["61.8"])

CurrentPrice == klines[Len(klines)].Close

\* C23: the current price is labelled inside the optimal-entry band exactly
\* when it lies between the 70.5% level and the 61.8% level (inclusive),
\* above when it is higher than the 61.8% level and below when it is lower
\* than the 70.5% level.
C23_BandLabels ==
    (FibonacciReturned /\ DOMAIN TheFibonacci.Levels # {})
        => /\ (TheFibonacci.CurrentPriceVsFib = "inside_ote") <=> InBand(CurrentPrice)
           /\ (TheFibonacci.CurrentPriceVsFib = "above_ote")
                <=> FGt(CurrentPrice, TheFibonacci.Levels["61.8"])
           /\ (TheFibonacci.CurrentPriceVsFib = "below_ote")
                <=> FLt(CurrentPrice, TheFibonacci.Levels["70.5"])

\* a Wyckoff analysis has been returned, without an error
WyckoffReturned ==
    pc = "computed" /\ analysis.kind = "Wyckoff" /\ analysis.err = "nil"

TheWyckoff == analysis.data

\* the last candle, the one before it and the five candles scanned
LastCandle == klines[Len(klines)]

PreviousCandle == klines[Len(klines) - 1]

ScannedCandles == (Len(klines) - 4)..Len(klines)

\* the conditions of the eight patterns, by name
PatternHolds(name) ==
    CASE name = "Spring" ->
            /\ FGt(FSub(PreviousCandle.Close, PreviousCandle.Low),
                   FMul(FromInt(2), FAbs(FSub(PreviousCandle.Close, PreviousCandle.Open))))
            /\ FGt(LastCandle.Close, PreviousCandle.Close)
      [] name = "UTAD" ->
            /\ FGt(FSub(PreviousCandle.High, PreviousCandle.Close),
                   FMul(FromInt(2), FAbs(FSub(PreviousCandle.Close, PreviousCandle.Open))))
            /\ FLt(LastCandle.Close, PreviousCandle.Close)
      [] name = "SOS" ->
            FGt(FSub(LastCandle.Close, LastCandle.Open),
                FMul(FConst(6, 10), FSub(LastCandle.High, LastCandle.Low)))
      [] name = "SOW" ->
            FGt(FSub(LastCandle.Open, LastCandle.Close),
                FMul(FConst(6, 10), FSub(LastCandle.High, LastCandle.Low)))
      [] name = "CLIMAX" ->
            FGt(FMul(FDiv(FSub(LastCandle.High, LastCandle.Low), LastCandle.Open),
                     FromInt(100)),
                FromInt(5))
      [] name = "TEST" ->
            /\ FGt(LastCandle.High, LastCandle.Low)
            /\ FLt(FDiv(FAbs(FSub(LastCandle.Close, LastCandle.Open)),
                        FSub(LastCandle.High, LastCandle.Low)),
                   FConst(3, 10))
      [] name = "BREAKOUT" ->
            \A i \in ScannedCandles \ {Len(klines)} : FGt(LastCandle.Close, klines[i].High)
      [] name = "BREAKDOWN" ->
            \A i \in ScannedCandles \ {Len(klines)} : FLt(LastCandle.Close, klines[i].Low)

SignalNames == {"Spring", "UTAD", "SOS", "SOW", "CLIMAX", "TEST", "BREAKOUT", "BREAKDOWN"}

Reported(name) == \E k \in DOMAIN TheWyckoff.SignalsPresent : TheWyckoff.SignalsPresent[k] = name

\* C24: the Wyckoff analysis of candles with positive prices returns a phase,
\* a volume pattern and a price action of their fixed sets of names, and a
\* list of signals of the eight pattern names, each at most once, that
\* reports every pattern whose condition holds.
C24_WyckoffNames ==
    WyckoffReturned
        => /\ TheWyckoff.Phase \in
                {"accumulation", "distribution", "uptrend", "downtrend", "consolidation"}
           /\ TheWyckoff.VolumePattern \in
                {"high_volume", "low_volume", "normal_volume", "divergence"}
           /\ TheWyckoff.PriceAction \in
                {"breakout", "breakdown", "false_move", "consolidation", "trending"}
           /\ \A k \in DOMAIN TheWyckoff.SignalsPresent :
                 /\ TheWyckoff.SignalsPresent[k] \in SignalNames
                 /\ \A j \in DOMAIN TheWyckoff.SignalsPresent :
                       TheWyckoff.SignalsPresent[j] = TheWyckoff.SignalsPresent[k] => j = k
           /\ \A name \in SignalNames : PatternHolds(name) <=> Reported(name)

\* a strong last candle above the candles before it: three patterns are
\* reported together
C24_Witness ==
    /\ WyckoffReturned
    /\ TheWyckoff.SignalsPresent = <<"SOS", "CLIMAX", "BREAKOUT">>
    /\ TheWyckoff.PriceAction = "breakout"
    /\ TheWyckoff.VolumePattern = "high_volume"

\* the detectors have been called one by one
PatternsReturned == pc = "computed" /\ analysis.kind = "Patterns"

\* C25: the climax detector reports a climax whenever the last candle's
\* high-minus-low range exceeds 5% of its open, for every window of candles
\* it is given, a window of two candles included.
C25_ClimaxOnLastCandle ==
    PatternsReturned => (analysis.data.CLIMAX <=> PatternHolds("CLIMAX"))

====
